---------------------------- MODULE Spec2Model ----------------------------
(***************************************************************************)
(* A model of the admin-panel front end of nazdrin/inventory: the generic  *)
(* Form and Table components, the login screen and route guard of App.js,  *)
(* the per-entity API wrappers (token read from localStorage at call time),*)
(* the Enterprise / Dropship panels' fetch - select - edit - save cycle    *)
(* against the REST back end, the Developer panel and the Mapping Branch   *)
(* page.                                                                   *)
(*                                                                         *)
(* JavaScript values are modelled as strings: Undef stands for undefined / *)
(* null, "true" and "false" for the booleans (no text input of the model   *)
(* produces these two strings), every other string for itself.            *)
(***************************************************************************)
EXTENDS Naturals, Sequences, FiniteSets, TLC

VARIABLES
    \* ---- Form.js harness: one mounted Form and its caller -------------
    fFields,      \* the `fields` prop: a sequence of field descriptors
    fValues,      \* the caller's state passed as the `values` prop
    fPrev,        \* content of the `values` object before the last event
    fPropAfter,   \* content of that same object after the last event
    fCalls,       \* callbacks invoked by the last event, in order
    fEvent,       \* the last DOM event delivered to the Form
    \* ---- Table.js harness -------------------------------------------
    tColumns,     \* the `columns` prop
    tData,        \* the `data` prop
    tActions,     \* the `actions` prop ([given |-> FALSE] when undefined)
    tRendered,    \* the rendered <table>: head cells and body rows
    tClicked,     \* the last action.handler(row) invocation
    \* ---- browser session: localStorage, App.js, Login.js ----------------
    token,        \* localStorage "token" (Undef when the key is absent)
    userLogin,    \* localStorage "user_login"
    authUser,     \* App's authUser state (the login response data)
    path,         \* window.location.pathname after route resolution
    lgLogin,      \* Login's `login` state
    lgPassword,   \* Login's `password` state
    lgError,      \* Login's `error` state
    loginReqs,    \* POST /login/ requests in flight
    lastOps,      \* API operations invoked by the last handler, in order
    aEvent,       \* the last login / logout / storage event handled
    \* ---- one mounted entity panel (Enterprise or Dropship) and its server
    panel,        \* which panel is mounted: "enterprise" or "dropship"
    items,        \* `enterprises` / `items`: the list last fetched
    filtered,     \* `filteredEnterprises` / `filtered`
    activeOnly,   \* Dropship's `activeOnly` toggle
    selected,     \* `selectedEnterprise` / `selected` ([some |-> FALSE] for null)
    originalCode, \* `originalCode`
    isEditing,    \* `isEditing`
    dataFormats,  \* Enterprise's `dataFormats`
    net,          \* requests of the panel in flight, in order of issue
    db,           \* the server's records, by key
    pEvent,       \* the Save that ended (done or failed) in the last step, if any
    saves,        \* how many times Save has been pressed
    \* ---- one invocation of an API wrapper, followed to its outcome -------
    apiRun,       \* the invocation: its requests, the response, what the caller gets
    \* ---- the mounted Developer panel and its server ---------------------
    currentSetting, \* `currentSetting` ([some |-> FALSE] for null)
    editing,      \* `editing`
    dpError,      \* `error`
    dpFormats,    \* `dataFormats`
    dpNet,        \* requests of the panel in flight, in order of issue
    dpServer,     \* the developer's settings as the server holds them
    dpSaved,      \* the settings as last fetched or successfully saved
    dEvent,       \* the last handler of the panel that ran
    \* ---- the mounted Mapping Branch page ---------------------------------
    mbMounted,    \* whether the page is mounted
    mbEnterprises, \* `enterprises`: the codes of the records last fetched
    selectedEnterprise, \* `selectedEnterprise`
    branch,       \* `branch`
    storeId,      \* `storeId`
    googleFolderId, \* `googleFolderId`
    mbNet,        \* requests of the page in flight, in order of issue
    mbEvent       \* the last handler of the page that ran, with its alert

formVars  == <<fFields, fValues, fPrev, fPropAfter, fCalls, fEvent>>
tableVars == <<tColumns, tData, tActions, tRendered, tClicked>>
authVars  == <<token, userLogin, authUser, path, lgLogin, lgPassword, lgError,
               loginReqs, lastOps, aEvent>>

panelVars == <<panel, items, filtered, activeOnly, selected, originalCode, isEditing,
               dataFormats, net, db, pEvent, saves>>

apiVars == <<apiRun>>
devVars == <<currentSetting, editing, dpError, dpFormats, dpNet, dpServer, dpSaved, dEvent>>

mapVars == <<mbMounted, mbEnterprises, selectedEnterprise, branch, storeId, googleFolderId,
             mbNet, mbEvent>>

vars == <<formVars, tableVars, authVars, panelVars, apiVars, devVars, mapVars>>
\* what the actions of one component leave alone
notForm  == <<tableVars, authVars, panelVars, apiVars, devVars, mapVars>>
notTable == <<formVars, authVars, panelVars, apiVars, devVars, mapVars>>
notAuth  == <<formVars, tableVars, panelVars, apiVars, devVars, mapVars>>
notPanel == <<formVars, tableVars, token, userLogin, authUser, path, lgLogin, lgPassword,
              lgError, loginReqs, aEvent, apiVars, devVars, mapVars>>
notApi   == <<formVars, tableVars, authVars, panelVars, devVars, mapVars>>
notDev   == <<formVars, tableVars, token, userLogin, authUser, path, lgLogin, lgPassword,
              lgError, loginReqs, aEvent, panelVars, apiVars, mapVars>>
notMap   == <<formVars, tableVars, token, userLogin, authUser, path, lgLogin, lgPassword,
              lgError, loginReqs, aEvent, panelVars, apiVars, devVars>>

Undef == "undefined"

JsBool(b) == IF b THEN "true" ELSE "false"

\* JavaScript truthiness of a modelled scalar (used by `x || y`, `!x`, `x && y`)
Truthy(v) == v \notin {Undef, "", "false"}

\* `a || b`
JsOr(a, b) == IF Truthy(a) THEN a ELSE b

\* `obj[key]` on a plain object
Get(obj, key) == IF key \in DOMAIN obj THEN obj[key] ELSE Undef

\* `{ ...obj, [key]: v }`
Spread(obj, key, v) ==
    [k \in DOMAIN obj \cup {key} |-> IF k = key THEN v ELSE obj[k]]

EmptyObj == [k \in {} |-> Undef]

SeqsUpTo(S, n) == UNION {[1..m -> S] : m \in 0..n}

(***************************************************************************)
(* components/Form.js                                                      *)
(***************************************************************************)
MaxOptions == 2

FieldNames == {"code", "name", "is_active"}
TextInputs == {"", "a", "b"}
OptionValues == [i \in 1..MaxOptions |-> IF i = 1 THEN "a" ELSE IF i = 2 THEN "b" ELSE "c"]
Scalars == TextInputs \cup {"true", "false"} \cup {OptionValues[i] : i \in 1..MaxOptions}

Field(n, t, d, opts) == [name |-> n, type |-> t, disabled |-> d, options |-> opts]

\* Field lists of the shapes the panels pass (EnterprisePanel.js 84-122,
\* DeveloperPanel.js 91-105): text, password, number, checkbox, select, a
\* descriptor without `type`, and a disabled one.
FieldLists ==
    { <<Field("code", "text", FALSE, <<>>), Field("name", "password", FALSE, <<>>),
        Field("is_active", "checkbox", FALSE, <<>>)>>,
      <<Field("code", Undef, TRUE, <<>>), Field("name", "select", FALSE, OptionValues),
        Field("is_active", "number", FALSE, <<>>)>>,
      <<Field("name", "number", FALSE, <<>>), Field("code", "select", FALSE, OptionValues)>> }

ValueMaps == UNION {[D -> Scalars] : D \in SUBSET FieldNames}

\* The control Form.js renders for a descriptor, as the DOM reports it in
\* e.target: `type` is the element's type, `shown` what it displays.
Control(field, values) ==
    IF field.type = "select"
    THEN [tag |-> "select", name |-> field.name, type |-> "select-one",
          shown |-> JsOr(Get(values, field.name), ""), disabled |-> FALSE]
    ELSE IF field.type = "checkbox"
    THEN [tag |-> "input", name |-> field.name, type |-> "checkbox",
          shown |-> JsOr(Get(values, field.name), "false"), disabled |-> FALSE]
    ELSE [tag |-> "input", name |-> field.name, type |-> JsOr(field.type, "text"),
          shown |-> JsOr(Get(values, field.name), ""), disabled |-> field.disabled]

\* The change events a user can raise on a rendered control: e.target of
\* each, `typed` being the texts the user may type into an input.
ChangeTargets(field, values, typed) ==
    LET c == Control(field, values) IN
    IF c.disabled THEN {}
    ELSE IF c.type = "checkbox"
    THEN {[name |-> c.name, type |-> c.type, value |-> "on",
           checked |-> ~Truthy(c.shown)]}
    ELSE IF c.tag = "select"
    THEN {[name |-> c.name, type |-> c.type, value |-> field.options[i],
           checked |-> FALSE] : i \in 1..Len(field.options)}
    ELSE {[name |-> c.name, type |-> c.type, value |-> v, checked |-> FALSE]
            : v \in typed}

Call(f, a) == [fn |-> f, args |-> a]

\* A buggy handleChange: writes the field into `values` itself and passes
\* that same object on.
handleChangeInPlace(values, target) ==
    LET fieldValue == IF target.type = "checkbox" THEN JsBool(target.checked)
                      ELSE target.value
        m == Spread(values, target.name, fieldValue)
    IN  [calls |-> <<Call("onChange", <<m>>)>>, values |-> m]

\* Form.handleChange: the callbacks it makes and the content of the
\* `values` object once it has returned.
handleChange(values, target) ==
    LET fieldValue == IF target.type = "checkbox" THEN JsBool(target.checked)
                      ELSE target.value
    IN  [calls |-> <<Call("onChange", <<Spread(values, target.name, fieldValue)>>)>>,
         values |-> values]

\* A buggy submit handler: refuses an empty value map and hands the map on.
formOnSubmitValidating(values) ==
    IF DOMAIN values = {} THEN <<>> ELSE <<Call("onSubmit", <<values>>)>>

\* The <form onSubmit> handler: e.preventDefault(); onSubmit();
formOnSubmit(values) == <<Call("onSubmit", <<>>)>>

FormInit ==
    /\ fFields \in FieldLists
    /\ fValues \in ValueMaps
    /\ fPrev = fValues
    /\ fPropAfter = fValues
    /\ fCalls = <<>>
    /\ fEvent = [kind |-> "none", name |-> Undef, type |-> Undef]

\* The caller of the harness is a controlled-component owner, as every panel
\* is (onChange={setSelected...}): each onChange call replaces its state.
CallerState(values, calls) ==
    IF \E i \in 1..Len(calls) : calls[i].fn = "onChange" /\ Len(calls[i].args) > 0
    THEN LET i == CHOOSE j \in 1..Len(calls) :
                    /\ calls[j].fn = "onChange" /\ Len(calls[j].args) > 0
                    /\ \A l \in (j+1)..Len(calls) : calls[l].fn # "onChange"
         IN  calls[i].args[1]
    ELSE values

FormChange ==
    \E i \in 1..Len(fFields) : \E target \in ChangeTargets(fFields[i], fValues, TextInputs) :
        LET r == handleChange(fValues, target) IN
        /\ fPrev' = fValues
        /\ fPropAfter' = r.values
        /\ fCalls' = r.calls
        /\ fValues' = CallerState(r.values, r.calls)
        /\ fEvent' = [kind |-> "change", name |-> target.name, type |-> fFields[i].type]
        /\ UNCHANGED <<fFields, notForm>>

FormSubmit ==
    /\ fPrev' = fValues
    /\ fPropAfter' = fValues
    /\ fCalls' = formOnSubmit(fValues)
    /\ fValues' = CallerState(fValues, fCalls')
    /\ fEvent' = [kind |-> "submit", name |-> Undef, type |-> Undef]
    /\ UNCHANGED <<fFields, notForm>>

(***************************************************************************)
(* components/Table.js                                                     *)
(***************************************************************************)
MaxCols == 2
MaxRows == 2
MaxActions == 2

\* A column is a descriptor {accessor, header} or a bare key string.
ColDesc(a, h) == [accessor |-> a, header |-> h, bare |-> Undef]
ColBare(s) == [accessor |-> Undef, header |-> Undef, bare |-> s]
ColumnChoices == {ColDesc("code", "Code"), ColBare("name")}

\* A cell value: a scalar, an object (or null), or absent.
Cell(t, v) == [t |-> t, v |-> v]
RowChoices ==
    { [k \in {"code", "name"} |-> IF k = "code" THEN Cell("scalar", "k1")
                                   ELSE Cell("object", "{\"x\":1}")],
      [k \in {"code"} |-> Cell("null", "null")] }

ActionLabels == [i \in 1..MaxActions |-> IF i = 1 THEN "Edit" ELSE "Open"]
ActionChoices ==
    {[given |-> FALSE, list |-> <<>>]} \cup
    {[given |-> TRUE, list |-> [i \in 1..n |-> ActionLabels[i]]] : n \in 0..MaxActions}

\* `col.accessor || col`
ColKey(col) == IF Truthy(col.accessor) THEN col.accessor ELSE col.bare
\* `col.header || col`
ColHeader(col) == IF Truthy(col.header) THEN col.header ELSE col.bare

\* typeof v === "object" ? JSON.stringify(v) : v   (undefined renders nothing)
CellText(row, key) ==
    IF key \notin DOMAIN row THEN ""
    ELSE IF row[key].t \in {"object", "null"} THEN row[key].v
    ELSE row[key].v

DataCell(text) == [kind |-> "data", text |-> text, buttons |-> <<>>]
ActionCell(list) == [kind |-> "actions", text |-> "", buttons |-> list]

\* A buggy Table: the action column is left out when the action list is empty.
TableSkipEmptyActions(columns, data, actions) ==
    LET extra(cell) == IF actions.given /\ Len(actions.list) > 0 THEN <<cell>> ELSE <<>>
    IN  [head |-> [j \in 1..Len(columns) |-> DataCell(ColHeader(columns[j]))]
                    \o extra(DataCell("Actions")),
         body |-> [i \in 1..Len(data) |->
                    [j \in 1..Len(columns) |-> DataCell(CellText(data[i], ColKey(columns[j])))]
                    \o extra(ActionCell(actions.list))]]

\* Table: the <thead> cells and the <tbody> rows it returns.
Table(columns, data, actions) ==
    LET extra(cell) == IF actions.given THEN <<cell>> ELSE <<>>
    IN  [head |-> [j \in 1..Len(columns) |-> DataCell(ColHeader(columns[j]))]
                    \o extra(DataCell("Actions")),
         body |-> [i \in 1..Len(data) |->
                    [j \in 1..Len(columns) |-> DataCell(CellText(data[i], ColKey(columns[j])))]
                    \o extra(ActionCell(actions.list))]]

NotRendered == [head |-> <<>>, body |-> <<>>]
NoClick == [label |-> Undef, row |-> 0]

TableInit ==
    /\ tColumns \in SeqsUpTo(ColumnChoices, MaxCols)
    /\ tData \in SeqsUpTo(RowChoices, MaxRows)
    /\ tActions \in ActionChoices
    /\ tRendered = [done |-> FALSE, out |-> NotRendered]
    /\ tClicked = NoClick

TableRender ==
    /\ ~tRendered.done
    /\ tRendered' = [done |-> TRUE, out |-> Table(tColumns, tData, tActions)]
    /\ UNCHANGED <<tColumns, tData, tActions, tClicked, notTable>>

\* onClick={() => action.handler(row)} of the button of action b in body row i
TableClick ==
    /\ tRendered.done
    /\ \E i \in 1..Len(tRendered.out.body) :
         LET row == tRendered.out.body[i] IN
         /\ Len(row) > 0 /\ row[Len(row)].kind = "actions"
         /\ \E b \in 1..Len(row[Len(row)].buttons) :
              tClicked' = [label |-> row[Len(row)].buttons[b], row |-> i]
    /\ UNCHANGED <<tColumns, tData, tActions, tRendered, notTable>>

(***************************************************************************)
(* api/*.js: what each wrapper does synchronously when invoked - the       *)
(* navigation it forces and the request it issues - given localStorage.    *)
(***************************************************************************)
NavEv(to) == [kind |-> "nav", method |-> Undef, url |-> to, key |-> Undef, auth |-> Undef]
ReqEv(m, url, key, auth) == [kind |-> "req", method |-> m, url |-> url, key |-> key, auth |-> auth]

Bearer(t) == "Bearer " \o t

\* developerApi.getAuthToken keeping the token it read first (a buggy variant)
getAuthTokenCached(tok) ==
    IF ~Truthy(tok) THEN [events |-> <<NavEv("/login")>>, token |-> Undef]
    ELSE [events |-> <<>>, token |-> "t1"]

\* developerApi.getAuthToken
getAuthToken(tok) ==
    IF ~Truthy(tok) THEN [events |-> <<NavEv("/login")>>, token |-> Undef]
    ELSE [events |-> <<>>, token |-> tok]

\* developerApi.getAuthHeaders: {} (no Authorization header) without a token
getAuthHeadersDeveloper(tok) ==
    LET t == getAuthToken(tok) IN
    [events |-> t.events,
     auth |-> IF Truthy(t.token) THEN Bearer(t.token) ELSE Undef]

\* getAuthHeaders of the dropship API and of mappingBranchAPI: the header is
\* built from the token whatever it is (`Bearer ${null}` is "Bearer null")
getAuthHeaders(tok) ==
    [events |-> IF ~Truthy(tok) THEN <<NavEv("/login")>> ELSE <<>>,
     auth |-> Bearer(IF tok = Undef THEN "null" ELSE tok)]

\* the enterpriseApi wrappers pass no request config: no headers are built
NoAuthHeaders == [events |-> <<>>, auth |-> Undef]

DeveloperOps == {"developerApi.getSetting", "developerApi.updateSetting",
                 "developerApi.getDataFormats", "developerApi.addDataFormat"}
EnterpriseOps == {"enterpriseApi.getEnterprises", "enterpriseApi.getEnterpriseByCode",
                  "enterpriseApi.createEnterprise", "enterpriseApi.updateEnterprise",
                  "enterpriseApi.getMappingBranches", "enterpriseApi.createMappingBranch"}
DropshipOps == {"dropshipEnterpriseApi.getDropshipEnterprises",
                "dropshipEnterpriseApi.getDropshipEnterpriseByCode",
                "dropshipEnterpriseApi.createDropshipEnterprise",
                "dropshipEnterpriseApi.updateDropshipEnterprise"}
MappingOps == {"mappingBranchAPI.createMappingBranch"}
ApiOps == DeveloperOps \cup EnterpriseOps \cup DropshipOps \cup MappingOps

\* method and URL (relative to API_BASE_URL) of the one request an operation issues
OpMethod(op) ==
    CASE op \in {"developerApi.updateSetting", "enterpriseApi.updateEnterprise",
                 "dropshipEnterpriseApi.updateDropshipEnterprise"} -> "PUT"
      [] op \in {"developerApi.addDataFormat", "enterpriseApi.createEnterprise",
                 "enterpriseApi.createMappingBranch",
                 "dropshipEnterpriseApi.createDropshipEnterprise",
                 "mappingBranchAPI.createMappingBranch"} -> "POST"
      [] OTHER -> "GET"

OpUrl(op) ==
    CASE op \in {"developerApi.getSetting", "developerApi.updateSetting"}
            -> "/developer/settings/:login"
      [] op \in {"developerApi.getDataFormats", "developerApi.addDataFormat"}
            -> "/data_formats"
      [] op \in {"enterpriseApi.getEnterprises", "enterpriseApi.createEnterprise"}
            -> "/enterprise/settings/"
      [] op \in {"enterpriseApi.getEnterpriseByCode", "enterpriseApi.updateEnterprise"}
            -> "/enterprise/settings/:code"
      [] op = "enterpriseApi.getMappingBranches" -> "/mapping_branch/:code"
      [] op \in {"enterpriseApi.createMappingBranch", "mappingBranchAPI.createMappingBranch"}
            -> "/mapping_branch/"
      [] op \in {"dropshipEnterpriseApi.getDropshipEnterprises",
                 "dropshipEnterpriseApi.createDropshipEnterprise"}
            -> "/dropship/enterprises/"
      [] OTHER -> "/dropship/enterprises/:code"

Invocation(op, tok, events) == [op |-> op, token |-> tok, events |-> events]

\* getSetting / updateSetting without their user_login check (a buggy variant)
ApiCallNoLoginCheck(op, tok, ulogin, key, dataEmpty) ==
    LET h == IF op \in DeveloperOps THEN getAuthHeadersDeveloper(tok)
             ELSE IF op \in EnterpriseOps THEN NoAuthHeaders
             ELSE getAuthHeaders(tok)
        k == IF op \in {"developerApi.getSetting", "developerApi.updateSetting"}
             THEN ulogin ELSE key
    IN  Invocation(op, tok, h.events \o <<ReqEv(OpMethod(op), OpUrl(op), k, h.auth)>>)

\* One invocation of an API operation: `key` is its key argument (Undef when
\* it takes none), `dataEmpty` whether its data argument is empty.
ApiCall(op, tok, ulogin, key, dataEmpty) ==
    IF op \in {"developerApi.getSetting", "developerApi.updateSetting"}
    THEN IF ~Truthy(ulogin)
         THEN Invocation(op, tok, <<NavEv("/login")>>)
         ELSE IF op = "developerApi.updateSetting" /\ dataEmpty
         THEN Invocation(op, tok, <<>>)
         ELSE LET h == getAuthHeadersDeveloper(tok) IN
              Invocation(op, tok, h.events \o <<ReqEv(OpMethod(op), OpUrl(op), ulogin, h.auth)>>)
    ELSE LET h == IF op \in DeveloperOps THEN getAuthHeadersDeveloper(tok)
                  ELSE IF op \in EnterpriseOps THEN NoAuthHeaders
                  ELSE getAuthHeaders(tok)
         IN  Invocation(op, tok, h.events \o <<ReqEv(OpMethod(op), OpUrl(op), key, h.auth)>>)

HasNav(ops) == \E i \in 1..Len(ops) : \E j \in 1..Len(ops[i].events) :
                    ops[i].events[j].kind = "nav"

(***************************************************************************)
(* App.js (routes, PrivateRoute, navigation bar) and pages/Login.js        *)
(***************************************************************************)
MaxLoginInFlight == 2

StatusUnauthorized == 401

Tokens == {"t1", "t2"}
Logins == {"u1", "u2"}
Passwords == {"p1"}
EntityKeys == {"k1", "k2"}

LoginPath == "/"
ProtectedPaths == {"/developer", "/enterprise", "/dropship-enterprises", "/mapping_branch"}
Paths == {LoginPath, "/login"} \cup ProtectedPaths

\* error texts of Login.js lines 40, 42 and 45
MsgBadCredentials == "Invalid login or password."
MsgTryLater == "An error occurred. Try again later."
MsgNoConnection == "Could not connect to the server."

Outcome(k, st, d, a) == [kind |-> k, status |-> st, detail |-> d, access |-> a]
NoOutcome == Outcome("none", 0, Undef, Undef)
\* what can come back for POST /login/: a 2xx with an access token, an HTTP
\* error (with or without a detail message), or no response at all
LoginOutcomes ==
    {Outcome("ok", 200, Undef, t) : t \in Tokens} \cup
    {Outcome("http", st, d, Undef) : st \in {StatusUnauthorized, 500}, d \in {"server detail", Undef}} \cup
    {Outcome("noresponse", 0, Undef, Undef)}

Snap(t, u, a, p) == [token |-> t, userLogin |-> u, authUser |-> a, path |-> p]
NoSnap == Snap(Undef, Undef, Undef, Undef)
Event(act, login, out, pre, mounted) ==
    [act |-> act, login |-> login, out |-> out, pre |-> pre, mounted |-> mounted]
NoEvent == Event("none", Undef, NoOutcome, NoSnap, FALSE)

\* a route table without the PrivateRoute guard (a buggy variant)
ResolveRouteUnguarded(p, au) == p

\* PrivateRoute: `authUser ? element : <Navigate to="/" />`; "/" renders
\* Login; a path no <Route> matches ("/login") renders nothing.
ResolveRoute(p, au) == IF p \in ProtectedPaths /\ ~Truthy(au) THEN LoginPath ELSE p

View(p, au) ==
    IF p = LoginPath THEN "Login"
    ELSE IF p \in ProtectedPaths THEN (IF Truthy(au) THEN p ELSE "Login")
    ELSE "blank"

\* API operations a page invokes from its mount effects, in order
MountCalls(p, tok, ulogin) ==
    CASE p = "/developer" ->
            <<ApiCall("developerApi.getSetting", tok, ulogin, Undef, FALSE),
              ApiCall("developerApi.getDataFormats", tok, ulogin, Undef, FALSE)>>
      [] p = "/enterprise" ->
            <<ApiCall("enterpriseApi.getEnterprises", tok, ulogin, Undef, FALSE),
              ApiCall("developerApi.getDataFormats", tok, ulogin, Undef, FALSE)>>
      [] p = "/dropship-enterprises" ->
            <<ApiCall("dropshipEnterpriseApi.getDropshipEnterprises", tok, ulogin, Undef, FALSE)>>
      [] p = "/mapping_branch" ->
            <<ApiCall("enterpriseApi.getEnterprises", tok, ulogin, Undef, FALSE)>>
      [] OTHER -> <<>>

\* API operations a mounted page invokes from its other handlers
HandlerOps(p) ==
    CASE p = "/developer" -> {"developerApi.updateSetting", "developerApi.addDataFormat",
                              "developerApi.getDataFormats"}
      [] p = "/enterprise" -> {"enterpriseApi.createEnterprise", "enterpriseApi.updateEnterprise",
                               "enterpriseApi.getEnterprises"}
      [] p = "/dropship-enterprises" ->
                {"dropshipEnterpriseApi.createDropshipEnterprise",
                 "dropshipEnterpriseApi.updateDropshipEnterprise",
                 "dropshipEnterpriseApi.getDropshipEnterprises"}
      [] p = "/mapping_branch" -> {"mappingBranchAPI.createMappingBranch"}
      [] OTHER -> {}

OpTakesKey(op) == op \in {"enterpriseApi.updateEnterprise",
                          "dropshipEnterpriseApi.updateDropshipEnterprise"}

\* Login.js catch block: the text handed to setError
\* (a buggy variant first: the server's detail is shown for every HTTP error)
loginErrorAlwaysDetail(out) ==
    IF out.kind = "http" THEN JsOr(out.detail, MsgTryLater) ELSE MsgNoConnection

loginError(out) ==
    IF out.kind = "http"
    THEN IF out.status = StatusUnauthorized THEN MsgBadCredentials
         ELSE JsOr(out.detail, MsgTryLater)
    ELSE MsgNoConnection

\* handleLogin after a 2xx that forgets localStorage "user_login" (a buggy variant)
handleLoginThenNoUserLogin(out, login, ulogin) ==
    [token |-> out.access, userLogin |-> ulogin, authUser |-> out.access,
     navigate |-> "/developer"]

\* handleLogin after a 2xx (Login.js 25-32): the two setItem calls,
\* setAuthUser(response.data) and navigate("/developer")
handleLoginThen(out, login, ulogin) ==
    [token |-> out.access, userLogin |-> login, authUser |-> out.access,
     navigate |-> "/developer"]

\* a catch block that also drops the stored token (a buggy variant)
handleLoginCatchClearing(out, snap, err, mounted) ==
    [snap |-> [snap EXCEPT !.token = Undef],
     error |-> IF mounted THEN loginError(out) ELSE err]

\* handleLogin's catch block (Login.js 34-47): setError and nothing else;
\* setError reaches the screen only while that Login is still mounted
handleLoginCatch(out, snap, err, mounted) ==
    [snap |-> snap, error |-> IF mounted THEN loginError(out) ELSE err]

AuthInit ==
    /\ token = Undef /\ userLogin = Undef
    /\ authUser = Undef
    /\ path = LoginPath
    /\ lgLogin = "" /\ lgPassword = "" /\ lgError = ""
    /\ loginReqs = <<>>
    /\ lastOps = <<>>
    /\ aEvent = NoEvent

\* a page load that restores authUser from the stored token (a buggy variant)
PageLoadRestoring(p) ==
    /\ authUser' = token
    /\ path' = ResolveRoute(p, token)
    /\ lgLogin' = "" /\ lgPassword' = "" /\ lgError' = ""
    /\ loginReqs' = <<>>

\* A full page load at URL p (typed URL, reload, window.location.href = p):
\* every component state is re-created and pending continuations are gone.
PageLoad(p) ==
    /\ authUser' = Undef
    /\ path' = ResolveRoute(p, Undef)
    /\ lgLogin' = "" /\ lgPassword' = "" /\ lgError' = ""
    /\ loginReqs' = <<>>

\* In-app navigation to a protected page with `au` as authUser: the page
\* mounts and its effects run; a wrapper that sets window.location.href
\* ends in a page load of /login.
EnterPage(p, au, tok, ulogin, reqs) ==
    LET target == ResolveRoute(p, au)
        calls == IF target \in ProtectedPaths THEN MountCalls(target, tok, ulogin) ELSE <<>>
    IN  /\ lastOps' = calls
        /\ IF HasNav(calls) THEN PageLoad("/login")
           ELSE /\ path' = target
                /\ authUser' = au
                /\ lgLogin' = "" /\ lgPassword' = "" /\ lgError' = ""
                /\ loginReqs' = reqs

SetLogin ==
    /\ path = LoginPath
    /\ \E v \in Logins \cup {""} : v # lgLogin /\ lgLogin' = v
    /\ aEvent' = NoEvent /\ lastOps' = <<>>
    /\ UNCHANGED <<token, userLogin, authUser, path, lgPassword, lgError, loginReqs, notAuth>>

SetPassword ==
    /\ path = LoginPath
    /\ \E v \in Passwords \cup {""} : v # lgPassword /\ lgPassword' = v
    /\ aEvent' = NoEvent /\ lastOps' = <<>>
    /\ UNCHANGED <<token, userLogin, authUser, path, lgLogin, lgError, loginReqs, notAuth>>

\* handleLogin up to its await (both inputs are `required`)
LoginSubmit ==
    /\ path = LoginPath
    /\ lgLogin # "" /\ lgPassword # ""
    /\ Len(loginReqs) < MaxLoginInFlight
    /\ loginReqs' = Append(loginReqs, [login |-> lgLogin, password |-> lgPassword])
    /\ aEvent' = NoEvent /\ lastOps' = <<>>
    /\ UNCHANGED <<token, userLogin, authUser, path, lgLogin, lgPassword, lgError, notAuth>>

Remove(seq, i) == [j \in 1..(Len(seq) - 1) |-> IF j < i THEN seq[j] ELSE seq[j + 1]]

\* handleLogin after its await, the request having succeeded
LoginSucceeded ==
    \E i \in 1..Len(loginReqs) : \E out \in LoginOutcomes :
        LET r == handleLoginThen(out, loginReqs[i].login, userLogin) IN
        /\ out.kind = "ok"
        /\ token' = r.token
        /\ userLogin' = r.userLogin
        /\ IF path = r.navigate
           THEN /\ authUser' = r.authUser
                /\ lastOps' = <<>>
                /\ UNCHANGED <<path, lgLogin, lgPassword, lgError>>
                /\ loginReqs' = Remove(loginReqs, i)
           ELSE EnterPage(r.navigate, r.authUser, r.token, r.userLogin,
                          Remove(loginReqs, i))
        /\ aEvent' = Event("loginOk", loginReqs[i].login, out,
                           Snap(token, userLogin, authUser, path), path = LoginPath)
        /\ UNCHANGED notAuth

\* handleLogin after its await, the request having failed
LoginFailed ==
    \E i \in 1..Len(loginReqs) : \E out \in LoginOutcomes :
        LET r == handleLoginCatch(out, Snap(token, userLogin, authUser, path),
                                  lgError, path = LoginPath) IN
        /\ out.kind # "ok"
        /\ loginReqs' = Remove(loginReqs, i)
        /\ token' = r.snap.token /\ userLogin' = r.snap.userLogin
        /\ authUser' = r.snap.authUser /\ path' = r.snap.path
        /\ lgError' = r.error
        /\ aEvent' = Event("loginFailed", loginReqs[i].login, out,
                           Snap(token, userLogin, authUser, path), path = LoginPath)
        /\ lastOps' = <<>>
        /\ UNCHANGED <<lgLogin, lgPassword, notAuth>>

\* a navigation-bar button (rendered only while authUser is set)
NavClick ==
    /\ Truthy(authUser)
    /\ \E p \in ProtectedPaths :
        /\ p # path
        /\ EnterPage(p, authUser, token, userLogin, loginReqs)
    /\ aEvent' = NoEvent
    /\ UNCHANGED <<token, userLogin, notAuth>>

\* the user opens a URL of the application or reloads the page
LoadUrl ==
    /\ \E p \in Paths : PageLoad(p)
    /\ lastOps' = <<>>
    /\ aEvent' = NoEvent
    /\ UNCHANGED <<token, userLogin, notAuth>>

\* a handler of the mounted page (save, add, re-fetch) invokes an operation
PageInvokes ==
    /\ path \in ProtectedPaths /\ Truthy(authUser)
    /\ \E op \in HandlerOps(path) :
       \E key \in IF OpTakesKey(op) THEN EntityKeys ELSE {Undef} :
            LET call == ApiCall(op, token, userLogin, key, FALSE) IN
            /\ lastOps' = <<call>>
            /\ IF HasNav(<<call>>) THEN PageLoad("/login")
               ELSE UNCHANGED <<authUser, path, lgLogin, lgPassword, lgError, loginReqs>>
    /\ aEvent' = NoEvent
    /\ UNCHANGED <<token, userLogin, notAuth>>

\* Neither logout has a caller in the sources; the model lets the page invoke
\* them whenever a token is stored.
\* developerApi.logout: both keys removed, window.location.href = "/login"
developerLogout(tok, ulogin) == [token |-> Undef, userLogin |-> Undef, load |-> "/login"]

\* mappingBranchAPI.logout: "token" removed, window.location.reload()
mappingLogout(tok, ulogin, p) == [token |-> Undef, userLogin |-> ulogin, load |-> p]

LogoutDeveloper ==
    LET r == developerLogout(token, userLogin) IN
    /\ Truthy(token)
    /\ token' = r.token /\ userLogin' = r.userLogin
    /\ PageLoad(r.load)
    /\ lastOps' = <<>>
    /\ aEvent' = Event("developerApi.logout", Undef, NoOutcome,
                       Snap(token, userLogin, authUser, path), FALSE)
    /\ UNCHANGED notAuth

\* a mappingBranchAPI.logout that removes the token and does not reload
\* (a buggy variant)
LogoutMappingNoReload ==
    /\ Truthy(token)
    /\ token' = Undef
    /\ lastOps' = <<>>
    /\ aEvent' = Event("mappingBranchAPI.logout", Undef, NoOutcome,
                       Snap(token, userLogin, authUser, path), FALSE)
    /\ UNCHANGED <<userLogin, authUser, path, lgLogin, lgPassword, lgError, loginReqs, notAuth>>

LogoutMapping ==
    LET r == mappingLogout(token, userLogin, path) IN
    /\ Truthy(token)
    /\ token' = r.token /\ userLogin' = r.userLogin
    /\ PageLoad(r.load)
    /\ lastOps' = <<>>
    /\ aEvent' = Event("mappingBranchAPI.logout", Undef, NoOutcome,
                       Snap(token, userLogin, authUser, path), FALSE)
    /\ UNCHANGED notAuth

\* another tab of the application (same origin, same localStorage) runs
\* developerApi.logout: this tab's memory and location are untouched
OtherTabLogout ==
    /\ Truthy(token) \/ Truthy(userLogin)
    /\ LET r == developerLogout(token, userLogin) IN
        token' = r.token /\ userLogin' = r.userLogin
    /\ lastOps' = <<>>
    /\ aEvent' = NoEvent
    /\ UNCHANGED <<authUser, path, lgLogin, lgPassword, lgError, loginReqs, notAuth>>

AuthNext ==
    \/ SetLogin \/ SetPassword \/ LoginSubmit \/ LoginSucceeded \/ LoginFailed
    \/ NavClick \/ LoadUrl \/ PageInvokes
    \/ LogoutDeveloper \/ LogoutMapping \/ OtherTabLogout

(***************************************************************************)
(* api/*.js: one invocation of a wrapper, from the call to what the caller *)
(* gets back                                                               *)
(***************************************************************************)
ApiDetails == {"server detail", "", Undef}
\* what can come back for a request of a wrapper: a 2xx, an HTTP error whose
\* JSON body has a detail message or none, or no response at all
ApiOutcomes ==
    {Outcome("ok", 200, Undef, Undef)} \cup
    {Outcome("http", st, d, Undef) : st \in {StatusUnauthorized, 500}, d \in ApiDetails} \cup
    {Outcome("noresponse", 0, Undef, Undef)}

\* updateEnterprise is written with fetch, every other wrapper with axios
UsesFetch(op) == op = "enterpriseApi.updateEnterprise"

MsgUpdateFailed == "Failed to update enterprise."

\* what the caller of a wrapper gets: a value, or a thrown error with its
\* message and, for an axios error, error.response.data.detail
Returned(v) ==
    [kind |-> "returned", value |-> v, type |-> Undef, message |-> Undef,
     responseDetail |-> Undef]
Thrown(type, msg, d) ==
    [kind |-> "thrown", value |-> Undef, type |-> type, message |-> msg,
     responseDetail |-> d]

\* a wrapper that throws one fixed error whatever the server said (a buggy variant)
apiFailureGeneric(op, out) == Thrown("Error", "Request failed", Undef)

\* the rejection of a wrapper: updateEnterprise throws
\* new Error(errorData.detail || "Failed to update enterprise.") on a non-ok
\* response; the axios wrappers log and rethrow (or just let through) the
\* AxiosError, which has the response body attached
apiFailure(op, out) ==
    IF UsesFetch(op)
    THEN IF out.kind = "http"
         THEN Thrown("Error", JsOr(out.detail, MsgUpdateFailed), Undef)
         ELSE Thrown("TypeError", "Failed to fetch", Undef)
    ELSE IF out.kind = "http"
         THEN Thrown("AxiosError", "Request failed with status code", out.detail)
         ELSE Thrown("AxiosError", "Network Error", Undef)

\* a wrapper after its await
apiSettle(op, out) ==
    IF out.kind = "ok" THEN Returned("response.data") ELSE apiFailure(op, out)

RequestsOf(call) ==
    Cardinality({j \in 1..Len(call.events) : call.events[j].kind = "req"})

Run(stage, call, out, result, sent) ==
    [stage |-> stage, call |-> call, out |-> out, result |-> result, sent |-> sent]
NoRun == Run("idle", Invocation(Undef, Undef, <<>>), NoOutcome, Returned(Undef), 0)

\* what localStorage can hold: nothing, the two keys of a login, or the
\* user_login that mappingBranchAPI.logout leaves behind
StorageStates ==
    {<<Undef, Undef>>} \cup (Tokens \X Logins) \cup ({Undef} \X Logins)

ApiIdle == apiRun = NoRun

\* a logged-in user on a panel, over any content of localStorage
ApiInit ==
    /\ \E st \in StorageStates : token = st[1] /\ userLogin = st[2]
    /\ authUser = "t1"
    /\ path = "/developer"
    /\ lgLogin = "" /\ lgPassword = "" /\ lgError = ""
    /\ loginReqs = <<>>
    /\ lastOps = <<>>
    /\ aEvent = NoEvent
    /\ apiRun = NoRun

\* a caller invokes a wrapper: the synchronous part up to the await, or to
\* an early return
ApiInvoke ==
    /\ apiRun.stage = "idle"
    /\ \E op \in ApiOps :
       \E key \in IF OpTakesKey(op) THEN EntityKeys ELSE {Undef} :
       \E dataEmpty \in IF op = "developerApi.updateSetting" THEN BOOLEAN ELSE {FALSE} :
            LET call == ApiCall(op, token, userLogin, key, dataEmpty)
                n == RequestsOf(call)
            IN  apiRun' = Run(IF n = 0 THEN "settled" ELSE "pending", call, NoOutcome,
                              Returned(Undef), n)
    /\ UNCHANGED notApi

\* the request is answered, or fails to be, and the wrapper returns or throws
ApiSettles ==
    /\ apiRun.stage = "pending"
    /\ \E out \in ApiOutcomes :
        apiRun' = [apiRun EXCEPT !.stage = "settled", !.out = out,
                                 !.result = apiSettle(apiRun.call.op, out)]
    /\ UNCHANGED notApi

\* the caller has its result - or the navigation the wrapper forced has
\* unloaded the page before the answer came
ApiDone ==
    /\ \/ apiRun.stage = "settled"
       \/ apiRun.stage = "pending" /\ HasNav(<<apiRun.call>>)
    /\ apiRun' = NoRun
    /\ UNCHANGED notApi

ApiNext == ApiInvoke \/ ApiSettles \/ ApiDone

(***************************************************************************)
(* pages/EnterprisePanel.js and DropshipEnterprisePanel (unnamed/part_000) *)
(* with the back end they talk to                                          *)
(***************************************************************************)
MaxInFlight == 2
MaxSaves == 2

\* EntityKeys in the order the server lists them
KeySeq == <<"k1", "k2">>
\* the names GET /data_formats returns
FormatNames == <<"Blank", "F1">>

PanelPath(pn) == IF pn = "enterprise" THEN "/enterprise" ELSE "/dropship-enterprises"
KeyField(pn) == IF pn = "enterprise" THEN "enterprise_code" ELSE "code"
ValField(pn) == IF pn = "enterprise" THEN "data_format" ELSE "is_active"
ValChoices(pn) == IF pn = "enterprise" THEN {FormatNames[i] : i \in 1..Len(FormatNames)}
                  ELSE {"true", "false"}
ValSeq(pn) == IF pn = "enterprise" THEN FormatNames ELSE <<"true", "false">>

Record(pn, k, v) ==
    [f \in {KeyField(pn), ValField(pn)} |-> IF f = KeyField(pn) THEN k ELSE v]

\* ---- the server: records stored by key --------------------------------
Absent == [present |-> FALSE, val |-> Undef]
Stored(v) == [present |-> TRUE, val |-> v]
DbStates(pn) == [EntityKeys -> {Absent} \cup {Stored(v) : v \in ValChoices(pn)}]
\* what the server holds when the panel is opened: nothing, one record, or
\* two records that differ in their value field
SeedDbs(pn) ==
    {d \in DbStates(pn) :
        /\ d["k2"].present => d["k1"].present
        /\ d["k1"].present => d["k1"].val = ValSeq(pn)[1]
        /\ d["k2"].present => d["k2"].val = ValSeq(pn)[2]}

\* GET <collection>/ : every stored record
ServerList(pn, d) ==
    LET F[i \in 0..Len(KeySeq)] ==
            IF i = 0 THEN <<>>
            ELSE IF d[KeySeq[i]].present
                 THEN Append(F[i - 1], Record(pn, KeySeq[i], d[KeySeq[i]].val))
                 ELSE F[i - 1]
    IN  F[Len(KeySeq)]

\* POST <collection>/ : a new record under the key in the body; refused
\* when the body has no key or the key is taken
ServerCreate(pn, d, data) ==
    LET k == Get(data, KeyField(pn)) IN
    IF k \in EntityKeys /\ ~d[k].present
    THEN [ok |-> TRUE, db |-> [d EXCEPT ![k] = Stored(Get(data, ValField(pn)))]]
    ELSE [ok |-> FALSE, db |-> d]

\* PUT <collection>/:key : the record under `key` replaced by the body, its
\* key kept; refused when there is no such record
ServerUpdate(pn, d, key, data) ==
    IF key \in EntityKeys /\ d[key].present
    THEN [ok |-> TRUE, db |-> [d EXCEPT ![key] = Stored(Get(data, ValField(pn)))]]
    ELSE [ok |-> FALSE, db |-> d]

\* ---- the panel ---------------------------------------------------------
NoSel == [some |-> FALSE, map |-> EmptyObj]
Sel(m) == [some |-> TRUE, map |-> m]

Ctx(mode, key, data) == [mode |-> mode, key |-> key, data |-> data]
MountCtx == Ctx("mount", Undef, EmptyObj)
\* a request in flight: `orig` is the originalCode its handler ran with,
\* `clobbered` whether a later write has landed on the key it wrote to,
\* `late` whether the response to a list fetch issued after it has
\* already been delivered
Req(api, stage, ctx, orig, body, clobbered) ==
    [api |-> api, stage |-> stage, ctx |-> ctx, orig |-> orig, body |-> body,
     clobbered |-> clobbered, late |-> FALSE]

NoPEvent ==
    [act |-> "none", ctx |-> MountCtx, orig |-> Undef, clobbered |-> FALSE, late |-> FALSE]

\* the requests in flight once the response to list fetch i is delivered:
\* net is in issue order, so the list fetches before i are overtaken
Delivered(reqs, i) ==
    Remove([j \in 1..Len(reqs) |->
                IF j < i /\ reqs[j].api = "list" THEN [reqs[j] EXCEPT !.late = TRUE]
                ELSE reqs[j]], i)

\* a filter that lets "Blank" formats through (a buggy variant)
enterpriseFilterKeepingBlank(list) ==
    LET keep(ent) == Truthy(Get(ent, "data_format"))
    IN  SelectSeq(list, keep)

\* data.filter(ent => ent.data_format && ent.data_format !== "Blank")
enterpriseFilter(list) ==
    LET keep(ent) == Truthy(Get(ent, "data_format")) /\ Get(ent, "data_format") # "Blank"
    IN  SelectSeq(list, keep)

\* activeOnly ? items.filter(x => x.is_active) : items
dropshipFilter(list, only) ==
    LET keep(x) == Truthy(Get(x, "is_active"))
    IN  IF only THEN SelectSeq(list, keep) ELSE list

\* the `fields` each panel hands to its Form (those of the model's records)
PanelFields(pn, formats) ==
    IF pn = "enterprise"
    THEN <<Field("enterprise_code", "text", FALSE, <<>>),
           Field("data_format", "select", FALSE, formats)>>
    ELSE <<Field("code", "text", FALSE, <<>>),
           Field("is_active", "checkbox", FALSE, <<>>)>>

\* the value map "Add New" starts from
AddNewValues(pn) ==
    IF pn = "enterprise" THEN EmptyObj ELSE [f \in {"is_active"} |-> "true"]

ListOp(pn) == IF pn = "enterprise" THEN "enterpriseApi.getEnterprises"
              ELSE "dropshipEnterpriseApi.getDropshipEnterprises"
WriteOp(pn, mode) ==
    IF pn = "enterprise"
    THEN (IF mode = "update" THEN "enterpriseApi.updateEnterprise"
          ELSE "enterpriseApi.createEnterprise")
    ELSE (IF mode = "update" THEN "dropshipEnterpriseApi.updateDropshipEnterprise"
          ELSE "dropshipEnterpriseApi.createDropshipEnterprise")

\* a buggy handleSave: the update is addressed to the key now in the form
saveRequestByFormKey(pn, edit, original, data) ==
    IF edit THEN Ctx("update", Get(data, KeyField(pn)), data)
    ELSE Ctx("create", Undef, data)

\* a buggy handleSave: every Save is sent as an update of the retained key
saveRequestAlwaysUpdate(pn, edit, original, data) ==
    Ctx("update", original, data)

\* handleSave up to its first await: update(originalCode, data) when
\* isEditing, create(data) otherwise
saveRequest(pn, edit, original, data) ==
    IF edit THEN Ctx("update", original, data)
    ELSE Ctx("create", Undef, data)

\* the key a Save writes to on the server
TargetKey(pn, ctx) ==
    IF ctx.mode = "update" THEN ctx.key ELSE Get(ctx.data, KeyField(pn))

\* the first item with the given key: items.find(x => x.code === code)
FindIndex(pn, list, code) ==
    IF \E i \in 1..Len(list) : Get(list[i], KeyField(pn)) = code
    THEN CHOOSE i \in 1..Len(list) :
            /\ Get(list[i], KeyField(pn)) = code
            /\ \A j \in 1..(i - 1) : Get(list[j], KeyField(pn)) # code
    ELSE 0

\* what the <select> of the panel displays: value={selected?.code || ""}
SelectShown(pn, sel, list) ==
    LET v == JsOr(Get(sel.map, KeyField(pn)), "") IN
    IF FindIndex(pn, list, v) # 0 THEN v ELSE ""

\* the mount effects: the list fetch and, for Enterprise, the formats fetch
MountRequests(pn) ==
    IF pn = "enterprise"
    THEN <<Req("list", "sent", MountCtx, Undef, <<>>, FALSE),
           Req("formats", "sent", MountCtx, Undef, <<>>, FALSE)>>
    ELSE <<Req("list", "sent", MountCtx, Undef, <<>>, FALSE)>>

\* a panel just mounted by a logged-in user, over any record set
PanelInit ==
    /\ panel \in {"enterprise", "dropship"}
    /\ token = "t1" /\ userLogin = "u1" /\ authUser = "t1"
    /\ path = PanelPath(panel)
    /\ lgLogin = "" /\ lgPassword = "" /\ lgError = ""
    /\ loginReqs = <<>>
    /\ aEvent = NoEvent
    /\ lastOps = MountCalls(path, token, userLogin)
    /\ items = <<>> /\ filtered = <<>> /\ activeOnly = FALSE
    /\ selected = NoSel /\ originalCode = Undef /\ isEditing = FALSE
    /\ dataFormats = <<>>
    /\ net = MountRequests(panel)
    /\ db \in SeedDbs(panel)
    /\ pEvent = NoPEvent
    /\ saves = 0

PanelIdle ==
    /\ panel = "none"
    /\ items = <<>> /\ filtered = <<>> /\ activeOnly = FALSE
    /\ selected = NoSel /\ originalCode = Undef /\ isEditing = FALSE
    /\ dataFormats = <<>> /\ net = <<>>
    /\ db = [k \in EntityKeys |-> Absent]
    /\ pEvent = NoPEvent
    /\ saves = 0

\* onChange of the record <select> (Dropship renders it only with nothing selected)
SelectChange ==
    /\ panel = "enterprise" \/ ~selected.some
    /\ \E code \in {""} \cup {Get(items[i], KeyField(panel)) : i \in 1..Len(items)} :
        LET i == FindIndex(panel, items, code) IN
        /\ code # SelectShown(panel, selected, items)
        /\ selected' = IF i # 0 THEN Sel(items[i]) ELSE NoSel
        /\ originalCode' = IF i # 0 THEN JsOr(Get(items[i], KeyField(panel)), Undef) ELSE Undef
        /\ isEditing' = (i # 0)
    /\ lastOps' = <<>> /\ pEvent' = NoPEvent
    /\ UNCHANGED <<panel, items, filtered, activeOnly, dataFormats, net, db, saves, notPanel>>

\* onClick of "Add New" (rendered with nothing selected)
AddNew ==
    /\ ~selected.some
    /\ selected' = Sel(AddNewValues(panel))
    /\ originalCode' = Undef
    /\ isEditing' = FALSE
    /\ lastOps' = <<>> /\ pEvent' = NoPEvent
    /\ UNCHANGED <<panel, items, filtered, activeOnly, dataFormats, net, db, saves, notPanel>>

\* a change event in the panel's Form: onChange={setSelected}
FormEdit ==
    /\ selected.some
    /\ LET fields == PanelFields(panel, dataFormats) IN
       \E i \in 1..Len(fields) :
       \E target \in ChangeTargets(fields[i], selected.map, EntityKeys) :
            /\ selected' = Sel(CallerState(selected.map,
                                           handleChange(selected.map, target).calls))
            /\ selected' # selected
    /\ lastOps' = <<>> /\ pEvent' = NoPEvent
    /\ UNCHANGED <<panel, items, filtered, activeOnly, originalCode, isEditing,
                   dataFormats, net, db, saves, notPanel>>

\* a handleCancel that forgets setOriginalCode(null) (a buggy variant)
CancelKeepingKey ==
    /\ selected.some
    /\ selected' = NoSel
    /\ isEditing' = FALSE
    /\ lastOps' = <<>> /\ pEvent' = NoPEvent
    /\ UNCHANGED <<panel, items, filtered, activeOnly, originalCode, dataFormats, net, db,
                   saves, notPanel>>

\* handleCancel
Cancel ==
    /\ selected.some
    /\ selected' = NoSel
    /\ originalCode' = Undef
    /\ isEditing' = FALSE
    /\ lastOps' = <<>> /\ pEvent' = NoPEvent
    /\ UNCHANGED <<panel, items, filtered, activeOnly, dataFormats, net, db, saves, notPanel>>

\* Dropship's "active only" checkbox, with the filter effect that follows
ToggleActiveOnly ==
    /\ panel = "dropship" /\ ~selected.some
    /\ activeOnly' = ~activeOnly
    /\ filtered' = dropshipFilter(items, activeOnly')
    /\ lastOps' = <<>> /\ pEvent' = NoPEvent
    /\ UNCHANGED <<panel, items, selected, originalCode, isEditing, dataFormats, net, db,
                   saves, notPanel>>

\* a Save that closes the form as soon as it is pressed (a buggy variant)
SaveClosingAtOnce ==
    /\ selected.some
    /\ Len(net) < MaxInFlight
    /\ saves < MaxSaves
    /\ saves' = saves + 1
    /\ LET ctx == saveRequest(panel, isEditing, originalCode, selected.map) IN
        /\ net' = Append(net, Req("write", "sent", ctx, originalCode, <<>>, FALSE))
        /\ lastOps' = <<ApiCall(WriteOp(panel, ctx.mode), token, userLogin, ctx.key, FALSE)>>
    /\ pEvent' = NoPEvent
    /\ selected' = NoSel /\ originalCode' = Undef /\ isEditing' = FALSE
    /\ UNCHANGED <<panel, items, filtered, activeOnly, dataFormats, db, notPanel>>

\* Save button / form submit: handleSave(selected) up to its first await
Save ==
    /\ selected.some
    /\ Len(net) < MaxInFlight
    /\ saves < MaxSaves
    /\ saves' = saves + 1
    /\ LET ctx == saveRequest(panel, isEditing, originalCode, selected.map) IN
        /\ net' = Append(net, Req("write", "sent", ctx, originalCode, <<>>, FALSE))
        /\ lastOps' = <<ApiCall(WriteOp(panel, ctx.mode), token, userLogin, ctx.key, FALSE)>>
    /\ pEvent' = NoPEvent
    /\ UNCHANGED <<panel, items, filtered, activeOnly, selected, originalCode, isEditing,
                   dataFormats, db, notPanel>>

\* the outcome of a write request on the server
WriteResult(pn, d, ctx) ==
    IF ctx.mode = "update" THEN ServerUpdate(pn, d, ctx.key, ctx.data)
    ELSE ServerCreate(pn, d, ctx.data)

\* the server answers a GET in flight with what it holds at that moment
ServerReplies ==
    /\ \E i \in 1..Len(net) :
        /\ net[i].stage = "sent" /\ net[i].api # "write"
        /\ net' = [net EXCEPT ![i].stage = "ok",
                              ![i].body = IF net[i].api = "list"
                                          THEN ServerList(panel, db) ELSE FormatNames]
    /\ lastOps' = <<>> /\ pEvent' = NoPEvent
    /\ UNCHANGED <<panel, items, filtered, activeOnly, selected, originalCode, isEditing,
                   dataFormats, db, saves, notPanel>>

\* the panel state a handler works on
PanelState(sel, orig, edit, list, flt) ==
    [selected |-> sel, originalCode |-> orig, isEditing |-> edit,
     items |-> list, filtered |-> flt]

\* a catch block of handleSave that also closes the form (a buggy variant)
handleSaveCatchClosing(st) ==
    [st EXCEPT !.selected = NoSel, !.originalCode = Undef, !.isEditing = FALSE]

\* the catch block of handleSave: console.error and nothing else
handleSaveCatch(st) == st

\* an awaited call rejects (no connection, or a non-2xx answer such as the
\* server refusing a write): the server state is as before.  A failing
\* call of handleSave ends in its catch block, a failing mount fetch in a
\* catch block that only logs as well.
RequestFails ==
    /\ \E i \in 1..Len(net) :
        LET now == PanelState(selected, originalCode, isEditing, items, filtered)
            st == IF net[i].ctx.mode = "mount" THEN now ELSE handleSaveCatch(now)
        IN  /\ net[i].stage = "sent"
            /\ net' = Remove(net, i)
            /\ selected' = st.selected
            /\ originalCode' = st.originalCode
            /\ isEditing' = st.isEditing
            /\ items' = st.items
            /\ filtered' = st.filtered
            /\ pEvent' = IF net[i].ctx.mode = "mount" THEN NoPEvent
                         ELSE [act |-> IF net[i].api = "write" THEN "writeFailed"
                                       ELSE "refetchFailed",
                               ctx |-> net[i].ctx, orig |-> net[i].orig,
                               clobbered |-> net[i].clobbered, late |-> net[i].late]
    /\ lastOps' = <<>>
    /\ UNCHANGED <<panel, activeOnly, dataFormats, db, saves, notPanel>>

\* the mount effect's list fetch resolves
MountListArrives ==
    /\ \E i \in 1..Len(net) :
        /\ net[i].api = "list" /\ net[i].stage = "ok" /\ net[i].ctx.mode = "mount"
        /\ items' = net[i].body
        /\ filtered' = IF panel = "enterprise" THEN enterpriseFilter(net[i].body)
                       ELSE dropshipFilter(net[i].body, activeOnly)
        /\ pEvent' = [act |-> "mountList", ctx |-> MountCtx, orig |-> Undef,
                      clobbered |-> FALSE, late |-> net[i].late]
        /\ net' = Delivered(net, i)
    /\ lastOps' = <<>>
    /\ UNCHANGED <<panel, activeOnly, selected, originalCode, isEditing, dataFormats, db,
                   saves, notPanel>>

\* a fetchDataFormats that is run only once the enterprises have arrived
\* (a buggy variant)
FormatsArriveAfterList ==
    /\ \A j \in 1..Len(net) : ~(net[j].api = "list" /\ net[j].ctx.mode = "mount")
    /\ \E i \in 1..Len(net) :
        /\ net[i].api = "formats" /\ net[i].stage = "ok"
        /\ dataFormats' = net[i].body
        /\ net' = Remove(net, i)
    /\ lastOps' = <<>> /\ pEvent' = NoPEvent
    /\ UNCHANGED <<panel, items, filtered, activeOnly, selected, originalCode, isEditing,
                   db, saves, notPanel>>

\* fetchDataFormats resolves (Enterprise only); a format is kept by its name
FormatsArrive ==
    /\ \E i \in 1..Len(net) :
        /\ net[i].api = "formats" /\ net[i].stage = "ok"
        /\ dataFormats' = net[i].body
        /\ net' = Remove(net, i)
    /\ lastOps' = <<>> /\ pEvent' = NoPEvent
    /\ UNCHANGED <<panel, items, filtered, activeOnly, selected, originalCode, isEditing,
                   db, saves, notPanel>>

\* the server accepts a Save's write and handleSave goes on past its first
\* await: the list is requested again.  The write marks the earlier Saves
\* to the same key whose re-fetch has not been served yet.
SaveWriteReturns ==
    /\ \E i \in 1..Len(net) :
        LET r == net[i]
            res == WriteResult(panel, db, r.ctx)
            Overwritten(q) ==
                /\ q.api = "list" /\ q.stage = "sent" /\ q.ctx.mode # "mount"
                /\ TargetKey(panel, q.ctx) = TargetKey(panel, r.ctx)
            marked == [j \in 1..Len(net) |->
                        IF Overwritten(net[j]) THEN [net[j] EXCEPT !.clobbered = TRUE]
                        ELSE net[j]]
        IN  /\ r.api = "write" /\ r.stage = "sent"
            /\ res.ok
            /\ db' = res.db
            /\ net' = Append(Remove(marked, i), Req("list", "sent", r.ctx, r.orig, <<>>, FALSE))
    /\ lastOps' = <<ApiCall(ListOp(panel), token, userLogin, Undef, FALSE)>>
    /\ pEvent' = NoPEvent
    /\ UNCHANGED <<panel, items, filtered, activeOnly, selected, originalCode, isEditing,
                   dataFormats, saves, notPanel>>

\* handleSave after its second await: the list is replaced and the
\* selection cleared
SaveRefetchArrives ==
    /\ \E i \in 1..Len(net) :
        /\ net[i].api = "list" /\ net[i].stage = "ok" /\ net[i].ctx.mode # "mount"
        /\ items' = net[i].body
        /\ filtered' = IF panel = "enterprise" THEN enterpriseFilter(net[i].body)
                       ELSE dropshipFilter(net[i].body, activeOnly)
        /\ pEvent' = [act |-> "saveDone", ctx |-> net[i].ctx, orig |-> net[i].orig,
                      clobbered |-> net[i].clobbered, late |-> net[i].late]
        /\ net' = Delivered(net, i)
    /\ selected' = NoSel
    /\ originalCode' = Undef
    /\ isEditing' = FALSE
    /\ lastOps' = <<>>
    /\ UNCHANGED <<panel, activeOnly, dataFormats, db, saves, notPanel>>

PanelNext ==
    \/ SelectChange \/ AddNew \/ FormEdit \/ Cancel \/ ToggleActiveOnly \/ Save
    \/ ServerReplies \/ RequestFails \/ MountListArrives \/ FormatsArrive
    \/ SaveWriteReturns \/ SaveRefetchArrives

(***************************************************************************)
(* pages/DeveloperPanel.js with the back end it talks to                   *)
(***************************************************************************)
\* the settings fields the model keeps: the login (shown disabled), one
\* text field and the checkbox
SettingNames == {"developer_login", "endpoint_catalog", "message_orders"}
\* what the user types into the text field
DevInputs == {"", "a"}
\* the one name the user adds as a data format
NewFormat == "F2"

MsgLoadFailed == "Failed to load settings."
MsgSaveFailed == "Failed to save the settings. Please check the input and try again."
MsgEmptySettings == "Cannot save empty settings."

Setting(l, e, m) ==
    [f \in SettingNames |-> IF f = "developer_login" THEN l
                            ELSE IF f = "endpoint_catalog" THEN e ELSE m]

\* ---- the server ---------------------------------------------------------
\* the settings row of the developer logged in, with nullable columns
ServerSettings == {Setting("u1", e, m) : e \in {Undef, "a"}, m \in {Undef, "true"}}

\* PUT /developer/settings/:login : the row replaced by the body
ServerPutSetting(srv, data) == [srv EXCEPT !.setting = data]

\* POST /data_formats : the name appended; refused when it is there already
ServerAddFormat(srv, name) ==
    IF \E i \in 1..Len(srv.formats) : srv.formats[i] = name
    THEN [ok |-> FALSE, srv |-> srv]
    ELSE [ok |-> TRUE, srv |-> [srv EXCEPT !.formats = Append(srv.formats, name)]]

\* ---- the panel ----------------------------------------------------------
DevReq(api, stage, data, body) == [api |-> api, stage |-> stage, data |-> data, body |-> body]

\* fetchSettings: the fields of the response with their defaults
defaultSettings(data) ==
    Setting(JsOr(Get(data, "developer_login"), ""),
            JsOr(Get(data, "endpoint_catalog"), ""),
            JsBool(Truthy(Get(data, "message_orders"))))

developerFields ==
    <<Field("developer_login", Undef, TRUE, <<>>),
      Field("endpoint_catalog", Undef, FALSE, <<>>),
      Field("message_orders", "checkbox", FALSE, <<>>)>>

DevEvent(act) == [act |-> act]

\* the Developer panel just mounted by a logged-in user: both mount effects
\* have issued their request
DevInit ==
    /\ token = "t1" /\ userLogin = "u1" /\ authUser = "t1"
    /\ path = "/developer"
    /\ lgLogin = "" /\ lgPassword = "" /\ lgError = ""
    /\ loginReqs = <<>>
    /\ aEvent = NoEvent
    /\ lastOps = MountCalls(path, token, userLogin)
    /\ currentSetting = NoSel
    /\ editing = FALSE
    /\ dpError = Undef
    /\ dpFormats = <<>>
    /\ dpNet = <<DevReq("setting", "sent", EmptyObj, <<>>),
                 DevReq("formats", "sent", EmptyObj, <<>>)>>
    /\ dpServer \in [setting : ServerSettings, formats : {FormatNames}]
    /\ dpSaved = NoSel
    /\ dEvent = DevEvent("none")

DevIdle ==
    /\ currentSetting = NoSel
    /\ editing = FALSE
    /\ dpError = Undef
    /\ dpFormats = <<>>
    /\ dpNet = <<>>
    /\ dpServer = [setting |-> Setting(Undef, Undef, Undef), formats |-> <<>>]
    /\ dpSaved = NoSel
    /\ dEvent = DevEvent("none")

\* a change event in the settings Form: onChange={setCurrentSetting}
DevEdit ==
    /\ currentSetting.some
    /\ \E i \in 1..Len(developerFields) :
       \E target \in ChangeTargets(developerFields[i], currentSetting.map, DevInputs) :
            /\ currentSetting' = Sel(CallerState(currentSetting.map,
                                        handleChange(currentSetting.map, target).calls))
            /\ currentSetting' # currentSetting
    /\ lastOps' = <<>>
    /\ dEvent' = DevEvent("edit")
    /\ UNCHANGED <<editing, dpError, dpFormats, dpNet, dpServer, dpSaved, notDev>>

\* Save button / form submit: handleSave up to its await, or to the early
\* return on empty settings
DevSave ==
    /\ IF ~currentSetting.some \/ DOMAIN currentSetting.map = {}
       THEN /\ dpError' = MsgEmptySettings
            /\ dpError' # dpError
            /\ lastOps' = <<>>
            /\ UNCHANGED dpNet
       ELSE /\ Len(dpNet) < MaxInFlight
            /\ dpNet' = Append(dpNet, DevReq("save", "sent", currentSetting.map, <<>>))
            /\ lastOps' = <<ApiCall("developerApi.updateSetting", token, userLogin, Undef,
                                    FALSE)>>
            /\ UNCHANGED dpError
    /\ dEvent' = DevEvent("save")
    /\ UNCHANGED <<currentSetting, editing, dpFormats, dpServer, dpSaved, notDev>>

\* Cancel button: onClick={() => setEditing(false)}
DevCancel ==
    /\ editing' = FALSE
    /\ dEvent' = DevEvent("cancel")
    /\ dEvent # dEvent'
    /\ lastOps' = <<>>
    /\ UNCHANGED <<currentSetting, dpError, dpFormats, dpNet, dpServer, dpSaved, notDev>>

\* the "Add New Format" form: handleAddDataFormat up to its first await
DevAddFormat ==
    /\ Len(dpNet) < MaxInFlight
    /\ dpNet' = Append(dpNet, DevReq("addFormat", "sent", NewFormat, <<>>))
    /\ lastOps' = <<ApiCall("developerApi.addDataFormat", token, userLogin, Undef, FALSE)>>
    /\ dEvent' = DevEvent("addFormat")
    /\ UNCHANGED <<currentSetting, editing, dpError, dpFormats, dpServer, dpSaved, notDev>>

\* the server answers a GET in flight with what it holds at that moment
DevServerReplies ==
    /\ \E i \in 1..Len(dpNet) :
        /\ dpNet[i].stage = "sent" /\ dpNet[i].api \in {"setting", "formats"}
        /\ dpNet' = [dpNet EXCEPT ![i].stage = "ok",
                                  ![i].body = IF dpNet[i].api = "setting"
                                              THEN dpServer.setting ELSE dpServer.formats]
    /\ lastOps' = <<>>
    /\ dEvent' = DevEvent("none")
    /\ UNCHANGED <<currentSetting, editing, dpError, dpFormats, dpServer, dpSaved, notDev>>

\* an awaited call rejects and the catch block of its handler runs:
\* fetchSettings and handleSave set `error`, the other two only log
DevRequestFails ==
    /\ \E i \in 1..Len(dpNet) :
        /\ dpNet[i].stage = "sent"
        /\ dpNet' = Remove(dpNet, i)
        /\ dpError' = IF dpNet[i].api = "setting" THEN MsgLoadFailed
                      ELSE IF dpNet[i].api = "save" THEN MsgSaveFailed
                      ELSE dpError
    /\ lastOps' = <<>>
    /\ dEvent' = DevEvent("failed")
    /\ UNCHANGED <<currentSetting, editing, dpFormats, dpServer, dpSaved, notDev>>

\* fetchSettings resolves
DevSettingArrives ==
    /\ \E i \in 1..Len(dpNet) :
        /\ dpNet[i].api = "setting" /\ dpNet[i].stage = "ok"
        /\ currentSetting' = Sel(defaultSettings(dpNet[i].body))
        /\ dpSaved' = currentSetting'
        /\ dpNet' = Remove(dpNet, i)
    /\ lastOps' = <<>>
    /\ dEvent' = DevEvent("loaded")
    /\ UNCHANGED <<editing, dpError, dpFormats, dpServer, notDev>>

\* fetchDataFormats, or the re-fetch of handleAddDataFormat, resolves
DevFormatsArrive ==
    /\ \E i \in 1..Len(dpNet) :
        /\ dpNet[i].api = "formats" /\ dpNet[i].stage = "ok"
        /\ dpFormats' = dpNet[i].body
        /\ dpNet' = Remove(dpNet, i)
    /\ lastOps' = <<>>
    /\ dEvent' = DevEvent("formats")
    /\ UNCHANGED <<currentSetting, editing, dpError, dpServer, dpSaved, notDev>>

\* the server accepts the PUT of a Save and handleSave goes on past its
\* await: setEditing(false)
DevSaveReturns ==
    /\ \E i \in 1..Len(dpNet) :
        /\ dpNet[i].api = "save" /\ dpNet[i].stage = "sent"
        /\ dpServer' = ServerPutSetting(dpServer, dpNet[i].data)
        /\ dpSaved' = Sel(dpNet[i].data)
        /\ dpNet' = Remove(dpNet, i)
    /\ editing' = FALSE
    /\ lastOps' = <<>>
    /\ dEvent' = DevEvent("saved")
    /\ UNCHANGED <<currentSetting, dpError, dpFormats, notDev>>

\* the server accepts the POST of a new format and handleAddDataFormat goes
\* on past its first await: the formats are requested again
DevAddFormatReturns ==
    /\ \E i \in 1..Len(dpNet) :
        LET res == ServerAddFormat(dpServer, dpNet[i].data) IN
        /\ dpNet[i].api = "addFormat" /\ dpNet[i].stage = "sent"
        /\ res.ok
        /\ dpServer' = res.srv
        /\ dpNet' = Append(Remove(dpNet, i), DevReq("formats", "sent", EmptyObj, <<>>))
    /\ lastOps' = <<ApiCall("developerApi.getDataFormats", token, userLogin, Undef, FALSE)>>
    /\ dEvent' = DevEvent("none")
    /\ UNCHANGED <<currentSetting, editing, dpError, dpFormats, dpSaved, notDev>>

DevNext ==
    \/ DevEdit \/ DevSave \/ DevCancel \/ DevAddFormat
    \/ DevServerReplies \/ DevRequestFails \/ DevSettingArrives \/ DevFormatsArrive
    \/ DevSaveReturns \/ DevAddFormatReturns

(***************************************************************************)
(* MappingBranchPage (pages/DeveloperPanel.js, second component)           *)
(***************************************************************************)
\* text typed into an input of the page
MapInputs == {"", "a"}
\* what GET /enterprise/settings/ can answer with: the codes of the records
EnterpriseLists == {<<>>, <<"k1">>, <<"k1", "k2">>}

MsgMappingAdded == "Record added"
MsgMappingFailed == "Error while saving"

MapReq(api, data) == [api |-> api, data |-> data]
MapEvent(act, sent, alert) == [act |-> act, sent |-> sent, alert |-> alert]

\* a handleSave guarded like the button, without the enterprise test
\* (a buggy variant)
handleSaveGuardAsButton(b, s, e, g) == Truthy(b) /\ Truthy(s) /\ Truthy(g)

\* handleSave goes on past its first line:
\* if (!branch || !storeId || !selectedEnterprise || !googleFolderId) return;
handleSaveGuard(b, s, e, g) == Truthy(b) /\ Truthy(s) /\ Truthy(e) /\ Truthy(g)

\* the save button: disabled={!branch || !storeId || !googleFolderId}
saveDisabled(b, s, g) == ~Truthy(b) \/ ~Truthy(s) \/ ~Truthy(g)

\* the body handleSave builds (id_telegram: [] left out)
mappingData(b, s, e, g) ==
    [branch |-> b, store_id |-> s, enterprise_code |-> e, google_folder_id |-> g]

\* the page just mounted by a logged-in user: the mount effect has run
MapInit ==
    /\ token = "t1" /\ userLogin = "u1" /\ authUser = "t1"
    /\ path = "/mapping_branch"
    /\ lgLogin = "" /\ lgPassword = "" /\ lgError = ""
    /\ loginReqs = <<>>
    /\ aEvent = NoEvent
    /\ lastOps = MountCalls(path, token, userLogin)
    /\ mbMounted = TRUE
    /\ mbEnterprises = <<>> /\ selectedEnterprise = ""
    /\ branch = "" /\ storeId = "" /\ googleFolderId = ""
    /\ mbNet = <<MapReq("list", EmptyObj)>>
    /\ mbEvent = MapEvent("none", FALSE, Undef)

MapIdle ==
    /\ mbMounted = FALSE
    /\ mbEnterprises = <<>> /\ selectedEnterprise = ""
    /\ branch = "" /\ storeId = "" /\ googleFolderId = ""
    /\ mbNet = <<>>
    /\ mbEvent = MapEvent("none", FALSE, Undef)

\* onChange of the enterprise <select>
MapSelect ==
    /\ \E code \in {""} \cup {mbEnterprises[i] : i \in 1..Len(mbEnterprises)} :
        /\ code # selectedEnterprise
        /\ selectedEnterprise' = code
    /\ mbEvent' = MapEvent("select", FALSE, Undef) /\ lastOps' = <<>>
    /\ UNCHANGED <<mbMounted, mbEnterprises, branch, storeId, googleFolderId, mbNet, notMap>>

\* onChange of one of the three text inputs
MapType ==
    /\ \E v \in MapInputs :
        \/ v # branch /\ branch' = v /\ UNCHANGED <<storeId, googleFolderId>>
        \/ v # storeId /\ storeId' = v /\ UNCHANGED <<branch, googleFolderId>>
        \/ v # googleFolderId /\ googleFolderId' = v /\ UNCHANGED <<branch, storeId>>
    /\ mbEvent' = MapEvent("type", FALSE, Undef) /\ lastOps' = <<>>
    /\ UNCHANGED <<mbMounted, mbEnterprises, selectedEnterprise, mbNet, notMap>>

\* a click on the save button (when it is enabled): handleSave up to its
\* await, or to its early return
MapSave ==
    /\ ~saveDisabled(branch, storeId, googleFolderId)
    /\ Len(mbNet) < MaxInFlight
    /\ IF handleSaveGuard(branch, storeId, selectedEnterprise, googleFolderId)
       THEN /\ mbNet' = Append(mbNet, MapReq("create",
                            mappingData(branch, storeId, selectedEnterprise, googleFolderId)))
            /\ lastOps' = <<ApiCall("mappingBranchAPI.createMappingBranch", token,
                                    userLogin, Undef, FALSE)>>
            /\ mbEvent' = MapEvent("handleSave", TRUE, Undef)
       ELSE /\ mbNet' = mbNet
            /\ lastOps' = <<>>
            /\ mbEvent' = MapEvent("handleSave", FALSE, Undef)
    /\ mbEvent' # mbEvent
    /\ UNCHANGED <<mbMounted, mbEnterprises, selectedEnterprise, branch, storeId,
                   googleFolderId, notMap>>

\* fetchEnterprises after its await
MapListArrives ==
    /\ \E i \in 1..Len(mbNet) : \E list \in EnterpriseLists :
        /\ mbNet[i].api = "list"
        /\ mbEnterprises' = list
        /\ mbNet' = Remove(mbNet, i)
    /\ mbEvent' = MapEvent("listArrived", FALSE, Undef) /\ lastOps' = <<>>
    /\ UNCHANGED <<mbMounted, selectedEnterprise, branch, storeId, googleFolderId, notMap>>

\* handleSave after its await: the three inputs are emptied, the chosen
\* enterprise stays, an alert is shown
MapCreateReturns ==
    /\ \E i \in 1..Len(mbNet) :
        /\ mbNet[i].api = "create"
        /\ mbNet' = Remove(mbNet, i)
    /\ branch' = "" /\ storeId' = "" /\ googleFolderId' = ""
    /\ mbEvent' = MapEvent("created", FALSE, MsgMappingAdded) /\ lastOps' = <<>>
    /\ UNCHANGED <<mbMounted, mbEnterprises, selectedEnterprise, notMap>>

\* an awaited call rejects: fetchEnterprises only logs, handleSave alerts
MapRequestFails ==
    /\ \E i \in 1..Len(mbNet) :
        /\ mbNet' = Remove(mbNet, i)
        /\ mbEvent' = IF mbNet[i].api = "create"
                      THEN MapEvent("createFailed", FALSE, MsgMappingFailed)
                      ELSE MapEvent("listFailed", FALSE, Undef)
    /\ lastOps' = <<>>
    /\ UNCHANGED <<mbMounted, mbEnterprises, selectedEnterprise, branch, storeId,
                   googleFolderId, notMap>>

MapNext ==
    \/ MapSelect \/ MapType \/ MapSave
    \/ MapListArrives \/ MapCreateReturns \/ MapRequestFails

(***************************************************************************)
(* Specifications                                                          *)
(***************************************************************************)
FormNext == FormChange \/ FormSubmit
TableNext == TableRender \/ TableClick

FormIdle ==
    /\ fFields = <<>> /\ fValues = EmptyObj /\ fPrev = EmptyObj /\ fPropAfter = EmptyObj
    /\ fCalls = <<>> /\ fEvent = [kind |-> "none", name |-> Undef, type |-> Undef]
TableIdle ==
    /\ tColumns = <<>> /\ tData = <<>> /\ tActions = [given |-> FALSE, list |-> <<>>]
    /\ tRendered = [done |-> FALSE, out |-> NotRendered] /\ tClicked = NoClick

\* the Form component under every field list and value map
InitForm == FormInit /\ TableIdle /\ AuthInit /\ PanelIdle /\ ApiIdle /\ DevIdle /\ MapIdle
SpecForm == InitForm /\ [][FormNext]_vars

\* the Table component under every column, row and action list
InitTable == FormIdle /\ TableInit /\ AuthInit /\ PanelIdle /\ ApiIdle /\ DevIdle /\ MapIdle
SpecTable == InitTable /\ [][TableNext]_vars

\* the session: login, routes, API wrappers, logout
InitAuth == FormIdle /\ TableIdle /\ AuthInit /\ PanelIdle /\ ApiIdle /\ DevIdle /\ MapIdle
SpecAuth == InitAuth /\ [][AuthNext]_vars

\* the application in one tab: nothing else touches localStorage
OneTabNext ==
    \/ SetLogin \/ SetPassword \/ LoginSubmit \/ LoginSucceeded \/ LoginFailed
    \/ NavClick \/ LoadUrl \/ PageInvokes
    \/ LogoutDeveloper \/ LogoutMapping
SpecOneTab == InitAuth /\ [][OneTabNext]_vars

\* an entity panel opened by a logged-in user, with its back end
InitPanel == FormIdle /\ TableIdle /\ PanelInit /\ ApiIdle /\ DevIdle /\ MapIdle
SpecPanel == InitPanel /\ [][PanelNext]_vars

\* the API wrappers, each invoked over any content of localStorage
InitApi == FormIdle /\ TableIdle /\ ApiInit /\ PanelIdle /\ DevIdle /\ MapIdle
SpecApi == InitApi /\ [][ApiNext]_vars

\* the Developer panel opened by a logged-in user, with its back end
InitDev == FormIdle /\ TableIdle /\ DevInit /\ PanelIdle /\ ApiIdle /\ MapIdle
SpecDev == InitDev /\ [][DevNext]_vars

\* the Mapping Branch page opened by a logged-in user
InitMap == FormIdle /\ TableIdle /\ MapInit /\ PanelIdle /\ ApiIdle /\ DevIdle
SpecMap == InitMap /\ [][MapNext]_vars

\* the two panels with two mount fetches, each opened by a logged-in user
PanelStep == panel = "enterprise" /\ PanelNext
DevStep == panel = "none" /\ DevNext
MountNext == PanelStep \/ DevStep
InitMount ==
    \/ InitPanel /\ panel = "enterprise"
    \/ InitDev
SpecMount == InitMount /\ [][MountNext]_vars

(***************************************************************************)
(* Properties                                                              *)
(***************************************************************************)

\* C1: a change event on field k calls onChange exactly once, with a map
\* that agrees with the old map on every key other than k (same keys, same
\* values), and the object passed in as `values` is left as it was.
C1_ChangeMergesOneKey ==
    fEvent.kind = "change" =>
        /\ Len(fCalls) = 1
        /\ fCalls[1].fn = "onChange" /\ Len(fCalls[1].args) = 1
        /\ LET m == fCalls[1].args[1] IN
            /\ DOMAIN m \ {fEvent.name} = DOMAIN fPrev \ {fEvent.name}
            /\ \A k \in DOMAIN fPrev \ {fEvent.name} : m[k] = fPrev[k]
            /\ fEvent.name \in DOMAIN m
        /\ fPropAfter = fPrev

\* a checkbox was toggled on a map that held other keys and not yet this one
C1_Witness ==
    /\ fEvent.kind = "change" /\ fEvent.type = "checkbox"
    /\ fEvent.name \notin DOMAIN fPrev
    /\ DOMAIN fPrev # {}
    /\ fValues[fEvent.name] = "true"

\* C9: the Table renders one body row per element of the row list, each of
\* (number of columns) cells, plus one cell when actions are supplied.
C9_TableShape ==
    tRendered.done =>
        /\ Len(tRendered.out.body) = Len(tData)
        /\ \A i \in 1..Len(tRendered.out.body) :
              Len(tRendered.out.body[i]) =
                  Len(tColumns) + (IF tActions.given THEN 1 ELSE 0)

\* two rows rendered with an action list that was supplied but is empty
C9_Witness ==
    /\ tRendered.done
    /\ Len(tData) >= 2 /\ Len(tColumns) >= 1
    /\ tActions.given /\ Len(tActions.list) = 0

\* C10: a submit event calls onSubmit exactly once, with no arguments,
\* whatever the value map holds, and calls nothing else (no onChange).
C10_SubmitCallsOnSubmitOnce ==
    fEvent.kind = "submit" => fCalls = <<Call("onSubmit", <<>>)>>

\* a submit of an empty value map
C10_Witness ==
    /\ fEvent.kind = "submit" /\ DOMAIN fPrev = {}
    /\ Len(fCalls) = 1

\* C2: with a token in storage, every request an API wrapper issues to a
\* backend endpoint carries Authorization: Bearer <that token>.
C2_EveryRequestCarriesBearer ==
    \A i \in 1..Len(lastOps) : \A j \in 1..Len(lastOps[i].events) :
        (lastOps[i].events[j].kind = "req" /\ Truthy(lastOps[i].token))
            => lastOps[i].events[j].auth = Bearer(lastOps[i].token)

\* C3: with no token in storage, an invoked API operation forces navigation
\* to /login, and does so before it issues any request.
C3_NoTokenRedirectsBeforeRequest ==
    \A i \in 1..Len(lastOps) :
        ~Truthy(lastOps[i].token) =>
            \E j \in 1..Len(lastOps[i].events) :
                /\ lastOps[i].events[j] = NavEv("/login")
                /\ \A l \in 1..(j - 1) : lastOps[i].events[l].kind # "req"

\* C5: after a login request has succeeded, "token" is the access token of
\* the response, "user_login" the submitted login, authUser is set and the
\* application is at /developer, showing the Developer panel.
C5_LoginSuccessStoresSession ==
    aEvent.act = "loginOk" =>
        /\ token = aEvent.out.access
        /\ userLogin = aEvent.login
        /\ Truthy(authUser)
        /\ path = "/developer"
        /\ View(path, authUser) = "/developer"

\* a login from the login screen succeeded for a login other than the stored one
C5_Witness ==
    /\ aEvent.act = "loginOk" /\ aEvent.mounted
    /\ Truthy(aEvent.pre.userLogin) /\ aEvent.pre.userLogin # aEvent.login
    /\ aEvent.pre.token # aEvent.out.access

\* C6: when a login request has failed (HTTP error or no response), both
\* storage keys, authUser and the location are what they were before the
\* failure was handled.
C6_LoginFailureChangesNothing ==
    aEvent.act = "loginFailed" =>
        Snap(token, userLogin, authUser, path) = aEvent.pre

\* a login failed without a response while an earlier session was stored
C6_Witness ==
    /\ aEvent.act = "loginFailed" /\ aEvent.out.kind = "noresponse"
    /\ Truthy(token) /\ Truthy(userLogin)

\* C7 as stated: an HTTP rejection shows the server's detail message, no
\* response shows the connectivity error.
C7_ShowsServerDetail ==
    (aEvent.act = "loginFailed" /\ aEvent.mounted) =>
        lgError = (IF aEvent.out.kind = "http" THEN aEvent.out.detail
                   ELSE MsgNoConnection)

\* C7 as amended: a 401 shows the fixed bad-credentials text; any other
\* HTTP error shows the server's detail if it has a non-empty one and the
\* fixed try-later text otherwise; no response shows the connectivity error.
C7_ErrorShown ==
    (aEvent.act = "loginFailed" /\ aEvent.mounted) =>
        lgError = (CASE aEvent.out.kind = "http" /\ aEvent.out.status = StatusUnauthorized
                            -> MsgBadCredentials
                     [] aEvent.out.kind = "http" /\ aEvent.out.status # StatusUnauthorized
                            /\ Truthy(aEvent.out.detail) -> aEvent.out.detail
                     [] aEvent.out.kind = "http" /\ aEvent.out.status # StatusUnauthorized
                            /\ ~Truthy(aEvent.out.detail) -> MsgTryLater
                     [] OTHER -> MsgNoConnection)

\* a 401 that carried a detail message was shown as the fixed text
C7_Witness ==
    /\ aEvent.act = "loginFailed" /\ aEvent.mounted
    /\ aEvent.out.status = StatusUnauthorized /\ Truthy(aEvent.out.detail)
    /\ lgError = MsgBadCredentials

\* C8: after either logout operation storage holds neither key, authUser
\* is unset and the login screen is displayed.
C8_LogoutReturnsToLogin ==
    aEvent.act \in {"developerApi.logout", "mappingBranchAPI.logout"} =>
        /\ token = Undef /\ userLogin = Undef
        /\ authUser = Undef
        /\ View(path, authUser) = "Login"



\* the key under which a completed Save's record is to be found: the key
\* in the submitted data when creating, the key the record had when it
\* was selected when editing
ExpectedKey ==
    IF pEvent.ctx.mode = "update" THEN pEvent.orig
    ELSE Get(pEvent.ctx.data, KeyField(panel))

HeaderOfStored == Bearer(IF token = Undef THEN "null" ELSE token)

\* C11: every Authorization header on a request of the operations just
\* invoked is built from the token localStorage holds at that invocation;
\* in particular no request issued after a later login replaced the stored
\* token carries the earlier one.
C11_HeaderFromStoredToken ==
    \A i \in 1..Len(lastOps) : \A j \in 1..Len(lastOps[i].events) :
        LET ev == lastOps[i].events[j] IN
        (ev.kind = "req" /\ ev.auth # Undef) => ev.auth = HeaderOfStored

\* a second login replaced token t1 by t2 and the page it opened sent a
\* request with the new token
C11_Witness ==
    /\ aEvent.act = "loginOk"
    /\ aEvent.pre.token = "t1" /\ token = "t2"
    /\ \E i \in 1..Len(lastOps) : \E j \in 1..Len(lastOps[i].events) :
        /\ lastOps[i].events[j].kind = "req"
        /\ lastOps[i].events[j].auth = Bearer("t2")

\* C12: a (re)load of the page at any URL leaves authUser unset and shows
\* no protected panel, whatever localStorage holds (and leaves localStorage
\* as it is); and authUser goes from unset to set only by a successful
\* login.
C12_ReloadUnsetsAuthUser ==
    [][ /\ LoadUrl => /\ authUser' = Undef
                      /\ View(path', authUser') \notin ProtectedPaths
                      /\ token' = token /\ userLogin' = userLogin
        /\ (~Truthy(authUser) /\ Truthy(authUser')) => aEvent'.act = "loginOk"
      ]_vars

\* the page was loaded again while a token was stored: the token is still
\* there, authUser is unset and the login view is shown
C12_Witness ==
    /\ Truthy(token) /\ ~Truthy(authUser)
    /\ path = LoginPath /\ View(path, authUser) = "Login"
    /\ aEvent = NoEvent

\* C13: whenever a record is taken into editing mode, or the retained key
\* changes while editing, the retained key is the key of the list record
\* just selected; edits in the form leave it alone; and a Save in editing
\* mode sends one PUT addressed to the retained key.
C13_UpdateAddressesRetainedKey ==
    [][ /\ (isEditing' /\ (~isEditing \/ originalCode' # originalCode)) =>
                \E i \in 1..Len(items) :
                    /\ selected' = Sel(items[i])
                    /\ originalCode' = Get(items[i], KeyField(panel))
        /\ (isEditing /\ saves' = saves + 1) =>
                /\ Len(lastOps') = 1
                /\ Len(lastOps'[1].events) = 1
                /\ lastOps'[1].events[1].kind = "req"
                /\ lastOps'[1].events[1].method = "PUT"
                /\ lastOps'[1].events[1].key = originalCode
      ]_vars

\* a record was selected, its key field retyped in the form, and Save sent
\* the PUT to the key the record was selected under
C13_Witness ==
    /\ isEditing /\ selected.some
    /\ Get(selected.map, KeyField(panel)) # originalCode
    /\ Len(lastOps) = 1
    /\ \E j \in 1..Len(lastOps[1].events) :
        /\ lastOps[1].events[j].method = "PUT"
        /\ lastOps[1].events[j].key = originalCode

\* C15: the step in which the write request of a Save fails changes
\* neither the selected value map, nor the editing flag, nor the retained
\* original key, nor the record list or its filtered view; a form that was
\* open stays open.
C15_FailedWriteChangesNothing ==
    [][ pEvent'.act = "writeFailed" =>
            /\ selected' = selected
            /\ isEditing' = isEditing
            /\ originalCode' = originalCode
            /\ items' = items /\ filtered' = filtered
      ]_vars

\* the update of a selected record with edited values has just failed: the
\* form still holds the edits, the list the record as fetched
C15_Witness ==
    /\ pEvent.act = "writeFailed"
    /\ selected.some /\ isEditing
    /\ selected.map = pEvent.ctx.data
    /\ originalCode = pEvent.orig
    /\ \E i \in 1..Len(items) :
        /\ Get(items[i], KeyField(panel)) = originalCode
        /\ Get(items[i], ValField(panel)) # Get(selected.map, ValField(panel))

\* C17: a step that stores a value under "token" or "user_login" is the
\* completion of a successful login, and a step that removes either key is
\* a logout (of this tab or of another tab on the same storage); every
\* other step - page handlers invoking API operations, navigation, mount
\* fetches, failed logins - leaves both keys as they are.
C17_StorageWrittenByLoginAndLogoutOnly ==
    [][ /\ (token' \notin {token, Undef} \/ userLogin' \notin {userLogin, Undef})
                => aEvent'.act = "loginOk"
        /\ ((token # Undef /\ token' = Undef) \/ (userLogin # Undef /\ userLogin' = Undef))
                => (LogoutDeveloper \/ LogoutMapping \/ OtherTabLogout)
      ]_vars

\* a handler of the Enterprise page has just invoked an API operation and
\* both keys are still stored
C17_Witness ==
    /\ path = "/enterprise" /\ aEvent = NoEvent
    /\ Len(lastOps) = 1 /\ lastOps[1].op \in HandlerOps(path)
    /\ Truthy(token) /\ Truthy(userLogin)

\* C18: the application is never at a protected path with authUser unset:
\* a protected panel is on screen only while authUser is set, and with
\* authUser unset the view is the login screen (or, at a path no route
\* matches, nothing).
C18_ProtectedOnlyWithAuthUser ==
    /\ path \in ProtectedPaths => Truthy(authUser)
    /\ ~Truthy(authUser) => View(path, authUser) \in {"Login", "blank"}

\* a logged-in user has moved on from /developer to another protected panel
C18_Witness ==
    /\ path \in ProtectedPaths \ {"/developer"}
    /\ Truthy(authUser)
    /\ View(path, authUser) = path

\* C19: "Add New" leaves the panel with a selected value map, no retained
\* original key and the editing flag off; and a Save pressed with the
\* editing flag off sends one POST (a create) and no PUT.
C19_AddNewSavesByCreate ==
    [][ /\ AddNew => /\ selected'.some
                     /\ selected'.map = AddNewValues(panel)
                     /\ originalCode' = Undef
                     /\ ~isEditing'
        /\ (~isEditing /\ saves' = saves + 1) =>
                /\ Len(lastOps') = 1
                /\ \A j \in 1..Len(lastOps'[1].events) :
                        lastOps'[1].events[j].kind = "req"
                            => lastOps'[1].events[j].method = "POST"
                /\ \E j \in 1..Len(lastOps'[1].events) :
                        lastOps'[1].events[j].kind = "req"
      ]_vars

\* a record started with "Add New" and given a key has just been saved:
\* the request sent is a POST
C19_Witness ==
    /\ selected.some /\ ~isEditing /\ originalCode = Undef
    /\ Get(selected.map, KeyField(panel)) \in EntityKeys
    /\ saves > 0
    /\ Len(lastOps) = 1
    /\ lastOps[1].events[Len(lastOps[1].events)].method = "POST"

\* the list re-fetches of Saves among the requests in flight
Refetches(n) == {i \in 1..Len(n) : n[i].api = "list" /\ n[i].ctx.mode # "mount"}
\* the write requests among the requests in flight
Writes(n) == {i \in 1..Len(n) : n[i].api = "write"}

\* C20: pressing Save sends the write request and nothing else, leaving the
\* selection and the list alone; a list re-fetch is issued only in a step
\* in which the server has accepted the write of the same Save; and the
\* step that ends a Save - list replaced, selection cleared - is one in
\* which that Save's re-fetch has been answered successfully.
C20_WriteThenRefetchThenClear ==
    [][ /\ saves' = saves + 1 =>
                /\ Cardinality(Writes(net')) = Cardinality(Writes(net)) + 1
                /\ Cardinality(Refetches(net')) = Cardinality(Refetches(net))
                /\ UNCHANGED <<selected, originalCode, isEditing, items, filtered>>
        /\ Cardinality(Refetches(net')) > Cardinality(Refetches(net)) =>
                \E i \in Writes(net) :
                    /\ WriteResult(panel, db, net[i].ctx).ok
                    /\ db' = WriteResult(panel, db, net[i].ctx).db
                    /\ Cardinality(Writes(net')) = Cardinality(Writes(net)) - 1
                    /\ net'[Len(net')].ctx = net[i].ctx
                    /\ UNCHANGED <<selected, originalCode, isEditing, items, filtered>>
        /\ pEvent'.act = "saveDone" =>
                \E i \in Refetches(net) :
                    /\ net[i].stage = "ok"
                    /\ net[i].ctx = pEvent'.ctx
                    /\ items' = net[i].body
                    /\ ~selected'.some /\ originalCode' = Undef /\ ~isEditing'
        /\ (selected.some /\ ~selected'.some) =>
                (pEvent'.act = "saveDone" \/ Cancel \/ SelectChange)
      ]_vars

\* a Save in creating mode has run to its end: the new record is listed
\* and the form is closed
C20_Witness ==
    /\ pEvent.act = "saveDone" /\ pEvent.ctx.mode = "create"
    /\ ~selected.some /\ ~isEditing /\ originalCode = Undef
    /\ \E i \in 1..Len(items) :
        Get(items[i], KeyField(panel)) = Get(pEvent.ctx.data, KeyField(panel))

\* C16: when the request of an API operation is answered with a non-success
\* response, the operation throws to its caller; the error thrown carries the
\* server's detail message whenever the response had one (as the error's
\* message, or as response.data.detail of the axios error); and the
\* invocation has issued that one request only.
C16_FailureCarriesDetail ==
    (apiRun.stage = "settled" /\ apiRun.out.kind = "http") =>
        /\ apiRun.result.kind = "thrown"
        /\ Truthy(apiRun.out.detail) =>
              \/ apiRun.result.message = apiRun.out.detail
              \/ apiRun.result.responseDetail = apiRun.out.detail
        /\ apiRun.sent = 1
        /\ RequestsOf(apiRun.call) = 1

\* updateEnterprise answered with an HTTP error that has a detail: the Error
\* thrown has the detail as its message
C16_Witness ==
    /\ apiRun.stage = "settled"
    /\ apiRun.call.op = "enterpriseApi.updateEnterprise"
    /\ apiRun.out.kind = "http" /\ apiRun.out.detail = "server detail"
    /\ apiRun.result.kind = "thrown"
    /\ apiRun.result.message = "server detail"

\* C14: Cancel discards the unsaved edits, leaves the panel in its
\* non-editing view and sends nothing.  In the Enterprise and Dropship
\* panels: the selection with its edits, the retained key and the editing
\* flag are cleared.  In the Developer panel: the editing flag is off and
\* the form is back at the settings as last fetched or saved.  In all three
\* the requests in flight are as before and no API operation is invoked.
C14_CancelDiscardsEdits ==
    [][ /\ Cancel => /\ ~selected'.some /\ ~isEditing' /\ originalCode' = Undef
                     /\ net' = net /\ lastOps' = <<>>
        /\ DevCancel => /\ ~editing'
                        /\ currentSetting' = dpSaved'
                        /\ dpNet' = dpNet /\ lastOps' = <<>>
      ]_vars

(***************************************************************************)
(* C28: a panel never has two write requests (create or update) in flight  *)
(* at the same time.                                                       *)
(***************************************************************************)
C28_OneWriteInFlight ==
    Cardinality({i \in 1..Len(net) : net[i].api = "write" /\ net[i].stage = "sent"}) <= 1

C25_FilteredIsFilterOfItems ==
    LET entKeep(r) == Get(r, "data_format") \notin {Undef, "", "Blank"}
        dropKeep(r) == activeOnly => Get(r, "is_active") = "true"
    IN  /\ panel = "enterprise" => filtered = SelectSeq(items, entKeep)
        /\ panel = "dropship" => filtered = SelectSeq(items, dropKeep)

\* after a Save the filter has dropped a record from a list of two
C25_Witness ==
    /\ pEvent.act = "saveDone"
    /\ Len(items) = 2 /\ Len(filtered) = 1

(***************************************************************************)
(* C30: when a Save's write succeeds but its list re-fetch fails, the      *)
(* selection, the edits, the editing flag and the lists the panel holds    *)
(* stay as they are, while the server holds the written record.            *)
(***************************************************************************)
C30_FailedRefetchKeepsSelectedView ==
    [][ pEvent'.act = "refetchFailed" =>
            /\ selected' = selected
            /\ originalCode' = originalCode /\ isEditing' = isEditing
            /\ items' = items /\ filtered' = filtered
            /\ db'[TargetKey(panel, pEvent'.ctx)].present
      ]_vars

\* the re-fetch of a Save has failed; the record it wrote is on the server
\* and not in the list the panel shows
C30_Witness ==
    /\ pEvent.act = "refetchFailed"
    /\ selected.some
    /\ db[TargetKey(panel, pEvent.ctx)].present
    /\ FindIndex(panel, items, TargetKey(panel, pEvent.ctx)) = 0

(***************************************************************************)
(* C26: a Save that completes after the user has moved on to another       *)
(* record (another retained key) leaves that selection and its edits alone.*)
(***************************************************************************)
C26_LateSaveKeepsNewSelection ==
    [][ (pEvent'.act = "saveDone" /\ selected.some /\ originalCode # pEvent'.orig) =>
            /\ selected' = selected
            /\ originalCode' = originalCode
            /\ isEditing' = isEditing
      ]_vars

(***************************************************************************)
(* C27: the response to a list fetch that arrives after the response to a  *)
(* list fetch issued later (the mount fetch after a Save's re-fetch) never *)
(* replaces the list the panel holds.                                      *)
(***************************************************************************)
C27_OvertakenFetchDoesNotOverwrite ==
    [][pEvent'.late => items' = items]_vars

(***************************************************************************)
(* C22: with no user_login in localStorage, developerApi.getSetting and    *)
(* developerApi.updateSetting force navigation to /login, issue no request *)
(* and hand their caller no data and no error.                             *)
(***************************************************************************)
C22_NoLoginRedirectsWithoutRequest ==
    (/\ apiRun.stage # "idle"
     /\ apiRun.call.op \in {"developerApi.getSetting", "developerApi.updateSetting"}
     /\ ~Truthy(userLogin))
    => /\ apiRun.call.events = <<NavEv("/login")>>
       /\ apiRun.sent = 0
       /\ apiRun.stage = "settled"
       /\ apiRun.result.kind = "returned"
       /\ apiRun.result.value = Undef

\* updateSetting has been called while user_login is absent
C22_Witness ==
    /\ apiRun.stage = "settled"
    /\ apiRun.call.op = "developerApi.updateSetting"
    /\ userLogin = Undef
    /\ HasNav(<<apiRun.call>>)
    /\ apiRun.result = Returned(Undef)

(***************************************************************************)
(* C29: whenever the in-memory authenticated user is set, localStorage     *)
(* holds both `token` and `user_login` (storage being changed only by the  *)
(* application's own page).                                                *)
(***************************************************************************)
C29_AuthUserImpliesStoredSession ==
    Truthy(authUser) => Truthy(token) /\ Truthy(userLogin)

\* logged in and on a panel, after an earlier logout
C29_Witness ==
    /\ Truthy(authUser) /\ path \in ProtectedPaths
    /\ token \in Tokens /\ userLogin \in Logins
    /\ aEvent.act = "loginOk" /\ Truthy(aEvent.pre.userLogin) /\ ~Truthy(aEvent.pre.token)

(***************************************************************************)
(* C23: the Mapping Branch page issues a create request only when branch,  *)
(* store ID, selected enterprise and Google folder ID are all non-empty;   *)
(* a Save with any of the four empty issues no request and changes no      *)
(* state of the page.                                                      *)
(***************************************************************************)
C23_CreateOnlyWithAllFour ==
    [][ LET allFour == branch # "" /\ storeId # "" /\ selectedEnterprise # ""
                       /\ googleFolderId # ""
        IN  /\ Len(mbNet') > Len(mbNet) => allFour /\ mbEvent'.act = "handleSave"
            /\ (mbEvent'.act = "handleSave" /\ ~allFour)
                => /\ mbNet' = mbNet /\ lastOps' = <<>>
                   /\ mbEnterprises' = mbEnterprises
                   /\ selectedEnterprise' = selectedEnterprise
                   /\ branch' = branch /\ storeId' = storeId
                   /\ googleFolderId' = googleFolderId
            /\ (mbEvent'.act = "handleSave" /\ allFour)
                => mbNet' = Append(mbNet, MapReq("create",
                        [branch |-> branch, store_id |-> storeId,
                         enterprise_code |-> selectedEnterprise,
                         google_folder_id |-> googleFolderId]))
      ]_vars

\* Save was pressed with the three inputs filled and no enterprise chosen:
\* nothing was sent
C23_Witness ==
    /\ mbEvent.act = "handleSave" /\ ~mbEvent.sent
    /\ branch # "" /\ storeId # "" /\ googleFolderId # ""
    /\ selectedEnterprise = ""
    /\ Len(mbEnterprises) > 0
    /\ \A i \in 1..Len(mbNet) : mbNet[i].api # "create"

(***************************************************************************)
(* C21: on mount of the Enterprise and Developer panels the record fetch   *)
(* and the data-formats fetch are both issued at once; the response of     *)
(* either is taken as soon as it is there, whether the other is pending,   *)
(* has failed or has been taken, and it updates its own state only.        *)
(***************************************************************************)
C21_MountFetchesIndependent ==
    [][ /\ \* both requests are out when the mount effects have run
           (Len(lastOps) = 2 /\ lastOps = MountCalls(path, token, userLogin)) =>
                IF panel = "enterprise"
                THEN /\ Len(net) = 2 /\ net[1].stage = "sent" /\ net[2].stage = "sent"
                     /\ {net[1].api, net[2].api} = {"list", "formats"}
                ELSE /\ Len(dpNet) = 2 /\ dpNet[1].stage = "sent" /\ dpNet[2].stage = "sent"
                     /\ {dpNet[1].api, dpNet[2].api} = {"setting", "formats"}
        /\ \* a response that is there is taken without waiting for the other
           \A i \in 1..Len(net) :
                (net[i].stage = "ok" /\ net[i].ctx.mode = "mount") =>
                    IF net[i].api = "list" THEN ENABLED MountListArrives
                    ELSE ENABLED FormatsArrive
        /\ \A i \in 1..Len(dpNet) :
                dpNet[i].stage = "ok" =>
                    IF dpNet[i].api = "setting" THEN ENABLED DevSettingArrives
                    ELSE ENABLED DevFormatsArrive
        /\ \* and it updates its own state, not the other's
           pEvent'.act = "mountList" =>
                /\ \E i \in 1..Len(net) :
                        net[i].api = "list" /\ net[i].stage = "ok" /\ items' = net[i].body
                /\ dataFormats' = dataFormats
        /\ dataFormats' # dataFormats =>
                /\ \E i \in 1..Len(net) :
                        net[i].api = "formats" /\ net[i].stage = "ok"
                        /\ dataFormats' = net[i].body
                /\ items' = items /\ filtered' = filtered
        /\ dEvent'.act = "loaded" =>
                /\ \E i \in 1..Len(dpNet) :
                        /\ dpNet[i].api = "setting" /\ dpNet[i].stage = "ok"
                        /\ currentSetting' = Sel(defaultSettings(dpNet[i].body))
                /\ dpFormats' = dpFormats
        /\ dEvent'.act = "formats" =>
                /\ \E i \in 1..Len(dpNet) :
                        /\ dpNet[i].api = "formats" /\ dpNet[i].stage = "ok"
                        /\ dpFormats' = dpNet[i].body
                /\ currentSetting' = currentSetting /\ dpError' = dpError
        /\ \* a failure of one leaves the state of the other as it is
           (Len(net') < Len(net) /\ pEvent'.act = "none") => items' = items
        /\ dEvent'.act = "failed" =>
                currentSetting' = currentSetting /\ dpFormats' = dpFormats
      ]_vars

\* the Enterprise panel holds the list it fetched although the formats
\* fetch has failed
C21_Witness ==
    /\ panel = "enterprise"
    /\ Len(items) > 0 /\ dataFormats = <<>>
    /\ net = <<>> /\ saves = 0

=========================================================================
